---- MODULE Spec2Model ----
(***************************************************************************)
(* State-machine models of the MedAI front-end revisions:                  *)
(*   - auth.js   MedAIApp "ENTERPRISE ENGINE v4.0"   (variables v4_...)    *)
(*   - dash.js   MedAIApp "ENTERPRISE ENGINE v2.5.0" (variables dash_...)  *)
(*   - part_002  MedAICore "ENTERPRISE ENGINE v1.0.0" (variables core_...) *)
(*   - part_001  MedAICore "ENTERPRISE ENGINE v2.0.0" (variables core2_...)*)
(*   - dash.js   AuthState / API / window.MedAI      (variables auth_...)   *)
(*   - auth.js   AuthApp "Authentication Engine"     (variables authapp_...)*)
(* Every async handler is a coroutine: a call record with a pc that names  *)
(* the await it is suspended at.  One action is one run-to-completion step *)
(* of the browser's event loop (an event handler, or the continuation of   *)
(* a settled promise up to its next await).                                *)
(***************************************************************************)
EXTENDS Integers, Sequences, FiniteSets, TLC

VARIABLES
    v4_isProcessing,      \* auth.js:245  state.isProcessing
    v4_isOnline,          \* auth.js:247  state.isOnline
    v4_lastRequestTime,   \* auth.js:246  state.lastRequestTime
    v4_now,               \* Date.now()
    v4_medai_token,       \* localStorage["medai_token"]
    v4_medai_user,        \* localStorage["medai_user"]
    v4_location,          \* window.location.href
    v4_calls,             \* the suspended safeCapture / sendForAnalysis coroutines
    v4_ended              \* history: the handler that ended in the last step, with
                          \* the notifications it showed and what it presented

v4vars == <<v4_isProcessing, v4_isOnline, v4_lastRequestTime, v4_now,
            v4_medai_token, v4_medai_user, v4_location, v4_calls, v4_ended>>

VARIABLES
    dash_isProcessing,    \* dash.js:38   state.isProcessing
    dash_isOnline,        \* dash.js:41   state.isOnline
    dash_cameraStream,    \* dash.js:45   this.cameraStream
    dash_videoReady,      \* dom.video has current data and dimensions
    dash_abortController, \* dash.js:46   this.abortController: 0 is null, else the
                          \* call whose AbortController it references
    dash_fileInput,       \* dash.js:47   this.fileInput
    dash_pickerOpen,      \* the file picker opened by fileInput.click() is showing
    dash_unloading,       \* beforeunload has run cleanup()
    dash_calls,           \* the suspended handleCapture / processLocalFile coroutines
    dash_ended,           \* history: the handler that ended in the last step
    dash_fired            \* history: the timeout callback that ran in the last step

dashvars == <<dash_isProcessing, dash_isOnline, dash_cameraStream, dash_videoReady,
              dash_abortController, dash_fileInput, dash_pickerOpen, dash_unloading,
              dash_calls, dash_ended, dash_fired>>

VARIABLES
    core_isProcessing,    \* part_002:20  state.isProcessing
    core_controller,      \* part_002:22  state.controller: 0 (null) or the call it was made for
    core_medai_token,     \* localStorage "medai_token" of the MedAICore page
    core_pickerOpen,      \* the file picker of a created input is open
    core_staleTimers,     \* timeout timers left pending by requests that are over
    core_redirect,        \* part_002:105 the redirect timer: "none", "pending", "done"
    core_calls,           \* the handleCapture / onchange coroutines in progress
    core_ended            \* the coroutine that ended in the last step, if any

corevars == <<core_isProcessing, core_controller, core_medai_token, core_pickerOpen,
              core_staleTimers, core_redirect, core_calls, core_ended>>

VARIABLES
    core2_isProcessing,      \* part_001:695  state.isProcessing
    core2_session,           \* part_001:711  state.session: "none", "valid" or "expired"
    core2_online,            \* part_001:716  state.system.online
    core2_abortControllers,  \* part_001:700  state.abortControllers, by the call each was made for
    core2_calls,             \* the handleCapture coroutines in progress
    core2_ended              \* the step that ended in the last step, with its notifications

core2vars == <<core2_isProcessing, core2_session, core2_online, core2_abortControllers,
               core2_calls, core2_ended>>

VARIABLES
    auth_token,           \* dash.js:715  AuthState.token
    auth_currentUser,     \* dash.js:714  AuthState.currentUser
    auth_isAuthenticated, \* dash.js:716  AuthState.isAuthenticated
    auth_localStorage,    \* localStorage: the keys medai_token, medai_user, medai_remember
    auth_sessionStorage,  \* sessionStorage of this tab: the same three keys
    auth_location,        \* window.location.href: "current", or the route assigned to it
    auth_lastSave,        \* history: the token and user of the most recent save(), if
                          \* no clear() came after it
    auth_calls,           \* the API.request / validateToken coroutines in progress
    auth_ended            \* history: the operation of the last step, the token before
                          \* it and the medai-auth-changed events it dispatched

authvars == <<auth_token, auth_currentUser, auth_isAuthenticated, auth_localStorage,
              auth_sessionStorage, auth_location, auth_lastSave, auth_calls, auth_ended>>

VARIABLES
    authapp_calls,        \* auth.js:89   the postData coroutines in progress
    authapp_redirect,     \* auth.js:136  the redirect timer of a successful submit is pending
    authapp_ended         \* history: the submit handler that ended in the last step

authappvars == <<authapp_calls, authapp_redirect, authapp_ended>>

VARIABLES
    eng_isProcessing,     \* part_002:390  state.isProcessing of MedAIApp v2.2
    eng_call,             \* the handleCapture coroutine of MedAIApp v2.2
    eng_ended             \* history: the capture that ended in the last step

engvars == <<eng_isProcessing, eng_call, eng_ended>>

VARIABLES
    conf_shown            \* dom.confidenceText.textContent as last written, by which
                          \* page and for which confidence of the response

confvars == <<conf_shown>>

VARIABLES
    sw_state,             \* part_000: the worker's life cycle: "parsed", "installed",
                          \* "activated" or "redundant"
    sw_cache,             \* part_000:5  the cache medai-cache-v1, by URL
    sw_pending,           \* part_000:70 the requests whose fetch(request) is pending
    sw_ended              \* history: the fetch event answered in the last step

swvars == <<sw_state, sw_cache, sw_pending, sw_ended>>

VARIABLES
    cam_cameraStream,     \* dash.js:45   this.cameraStream, as the number of the stream
    cam_unstopped,        \* the acquired streams whose tracks have not been stopped
    cam_pending,          \* dash.js:633  the initCamera() calls awaiting getUserMedia
    cam_acquired          \* the number of streams getUserMedia has handed out

camvars == <<cam_cameraStream, cam_unstopped, cam_pending, cam_acquired>>

VARIABLES
    torch_track,          \* part_001:299 cameraStream has a video track
    torch_enabled,        \* part_001:41  state.torchEnabled
    torch_hardware,       \* the torch setting last applied successfully to the track
    torch_pending,        \* part_001:304 the settings of the applyConstraints calls pending
    torch_note,           \* history: the notification of the last step
    torch_calls           \* history: the number of toggleTorch() calls made

torchvars == <<torch_track, torch_enabled, torch_hardware, torch_pending, torch_note,
               torch_calls>>

vars == <<v4vars, dashvars, corevars, core2vars, authvars, authappvars, engvars, confvars,
          swvars, camvars, torchvars>>

(***************************************************************************)
(* Bounds of the model.                                                    *)
(***************************************************************************)
MaxCalls == 2    \* coroutines of one page that may be suspended at once
MaxTicks == 2    \* clock advances (of half a cooldown each) that are explored
MaxTimers == 3   \* timeout timers of MedAICore v1 that may be pending at once
ConfidenceSpan == 30   \* confidences from this far below 0 to this far above 100
MaxStreams == 6  \* camera streams that getUserMedia hands out
MaxToggles == 8  \* toggleTorch() calls of one page

(***************************************************************************)
(* JavaScript values.                                                      *)
(***************************************************************************)
NoToken == "null"
Tokens  == {"tokA"}
NoUser  == "null"
Users   == {"userA"}

\* Storage holds strings; getItem of a missing key is null.
StorageNull == "absent"

\* A decoded JSON property, by the JavaScript type it has.
TypeOf(v) ==
    CASE v = "undefined" -> "undefined"
      [] v = "string"    -> "string"
      [] v = "number"    -> "number"
      [] OTHER           -> "object"      \* null, arrays and objects

IsArray(v) == v \in {"array_empty", "array"}

\* A response body: what response.json() yields.  kind "malformed" is a body
\* that does not parse (json() rejects); the other kinds are the decoded value.
ObjectBodies ==
    [kind : {"object"},
     diagnosis  : {"undefined", "string", "number"},
     findings   : {"undefined", "array_empty", "array", "string"},
     confidence : {"undefined", "number", "string"},
     extra      : BOOLEAN]

PlainBody(k) ==
    [kind |-> k, diagnosis |-> "undefined", findings |-> "undefined",
     confidence |-> "undefined", extra |-> FALSE]

Bodies == ObjectBodies \cup {PlainBody(k) : k \in {"malformed", "null", "number", "string", "array_empty"}}

NoBody == PlainBody("none")

Truthy(data) == data.kind \notin {"null", "none", "malformed"}

\* What one attempt of a request ends with.
Statuses == {200, 400, 401, 403, 404, 500, 502, 503, 504}
Ok(status) == status >= 200 /\ status <= 299            \* Response.ok

NoOutcome          == [kind |-> "none",       status |-> 0]
StatusOutcome(s)   == [kind |-> "status",     status |-> s]
TypeErrorOutcome   == [kind |-> "TypeError",  status |-> 0]   \* fetch rejects: network failure
AbortErrorOutcome  == [kind |-> "AbortError", status |-> 0]   \* fetch rejects: signal aborted
ServerError(s)     == [kind |-> "Error",      status |-> s]   \* new Error(`Server error ${status}`)
InvalidResponse    == [kind |-> "Error",      status |-> 0]   \* new Error("Invalid server response")
SyntaxErrorOutcome == [kind |-> "SyntaxError", status |-> 0]  \* response.json() rejects
NotAFunction       == [kind |-> "TypeError",  status |-> 1]   \* calling a method the class lacks

(***************************************************************************)
(* auth.js, MedAIApp v4.0                                                  *)
(***************************************************************************)
V4_REQUEST_TIMEOUT == 30000
V4_MAX_RETRIES == 2
V4_MAX_FILE_SIZE == 52428800
V4_COOLDOWN_MS == 3000
V4_RETRYABLE_STATUS == {502, 503, 504}
V4_REDIRECT_LOGIN == "login.html"

V4Slots == 1..MaxCalls
FileSizes == {V4_MAX_FILE_SIZE, V4_MAX_FILE_SIZE + 1}

V4IdleCall ==
    [pc |-> "idle", src |-> "none", attempt |-> 0, token |-> NoToken,
     sent |-> 0, headers |-> <<>>, timeout |-> FALSE, outcomes |-> <<>>,
     delays |-> <<>>]

\* v4_ended when no handler ended in the last step.
V4NoEnded ==
    [src |-> "none", attempt |-> 0, token |-> NoToken, sent |-> 0,
     headers |-> <<>>, outcomes |-> <<>>, delays |-> <<>>, notes |-> <<>>,
     result |-> "none", error |-> NoOutcome, body |-> NoBody, presented |-> NoBody]

\* validateResponseSchema without the Array.isArray(data.findings) conjunct.
V4ValidateResponseSchemaNoFindings(data) ==
    /\ Truthy(data)
    /\ data.kind \in {"object", "array_empty"}
    /\ TypeOf(data.diagnosis) = "string"
    /\ TypeOf(data.confidence) = "number"

\* validateResponseSchema(data)
V4ValidateResponseSchema(data) ==
    /\ Truthy(data)
    /\ data.kind \in {"object", "array_empty"}          \* typeof data === "object"
    /\ TypeOf(data.diagnosis) = "string"
    /\ IsArray(data.findings)
    /\ TypeOf(data.confidence) = "number"

\* The class has no displayResults method: the call this.displayResults(data)
\* evaluates to a call of undefined and throws a TypeError.
V4HasDisplayResults == FALSE

\* A backoff that multiplies by the attempt index instead of attempt + 1.
V4BackoffFromZero(attempt) == 1000 * attempt

\* fetchSecure, the backoff before the next attempt.
V4Backoff(attempt) == 1000 * (attempt + 1)

\* The catch block giving up one attempt later.
V4FetchSecureCatchPastLast(attempt, err) ==
    IF attempt > V4_MAX_RETRIES
    THEN [do |-> "throw", err |-> err, ms |-> 0]
    ELSE [do |-> "sleep", err |-> err, ms |-> V4Backoff(attempt)]

\* fetchSecure, the catch block: what the loop does with a thrown error.
V4FetchSecureCatch(attempt, err) ==
    IF attempt >= V4_MAX_RETRIES
    THEN [do |-> "throw", err |-> err, ms |-> 0]
    ELSE [do |-> "sleep", err |-> err, ms |-> V4Backoff(attempt)]

\* The try block with the auto-logout test on 401 alone.
V4FetchSecureResponseOnly401(attempt, status) ==
    IF status = 401
    THEN [do |-> "logout", err |-> NoOutcome, ms |-> 0]
    ELSE IF ~Ok(status)
         THEN IF status \in V4_RETRYABLE_STATUS /\ attempt < V4_MAX_RETRIES
              THEN [do |-> "sleep", err |-> NoOutcome, ms |-> V4Backoff(attempt)]
              ELSE V4FetchSecureCatch(attempt, ServerError(status))
         ELSE [do |-> "return", err |-> NoOutcome, ms |-> 0]

\* fetchSecure, the try block after the fetch resolved with `status`.
V4FetchSecureResponse(attempt, status) ==
    IF status = 401 \/ status = 403
    THEN [do |-> "logout", err |-> NoOutcome, ms |-> 0]
    ELSE IF ~Ok(status)
         THEN IF status \in V4_RETRYABLE_STATUS /\ attempt < V4_MAX_RETRIES
              THEN [do |-> "sleep", err |-> NoOutcome, ms |-> V4Backoff(attempt)]
              ELSE V4FetchSecureCatch(attempt, ServerError(status))   \* the throw is inside the try
         ELSE [do |-> "return", err |-> NoOutcome, ms |-> 0]

\* sendForAnalysis without its re-entrancy guard.
V4SendForAnalysisNoGuard == FALSE

\* sendForAnalysis, line 381: the re-entrancy guard.
V4SendForAnalysisBusy == v4_isProcessing

\* fetchSecure, the Authorization header of one attempt: the `token` constant
\* read by getToken() when the call started.
V4AuthorizationRereadsStorage(token) == "Bearer " \o v4_medai_token
V4Authorization(token) == "Bearer " \o token

\* logout()
V4Logout ==
    /\ v4_medai_token' = NoToken
    /\ v4_medai_user' = NoUser
    /\ v4_location' = V4_REDIRECT_LOGIN

V4PageLive == v4_location # V4_REDIRECT_LOGIN

\* The page of auth.js shares no state with the other revisions.
V4Frame == UNCHANGED <<dashvars, corevars, core2vars, authvars, authappvars, engvars, confvars, swvars, camvars, torchvars>>

V4HasFreeSlot == \E t \in V4Slots : v4_calls[t].pc = "idle"
V4FreeSlot == CHOOSE t \in V4Slots :
                 v4_calls[t].pc = "idle" /\ \A u \in V4Slots : u < t => v4_calls[u].pc # "idle"

\* What a handler that ends in this step leaves in the history.
V4Ended(c, result, error, body, presented, notes) ==
    [src |-> c.src, attempt |-> c.attempt,
     token |-> c.token, sent |-> c.sent, headers |-> c.headers,
     outcomes |-> c.outcomes, delays |-> c.delays,
     notes |-> notes, result |-> result, error |-> error, body |-> body,
     presented |-> presented]

\* The coroutine in slot t ends.
V4End(t, c, result, error, body, presented, notes) ==
    /\ v4_calls' = [v4_calls EXCEPT ![t] = V4IdleCall]
    /\ v4_ended' = V4Ended(c, result, error, body, presented, notes)

\* sendForAnalysis(file, filename) up to its first await, for the call c in slot t.
V4SendForAnalysis(t, c) ==
    IF V4SendForAnalysisBusy
    THEN /\ V4End(t, c, "busy", NoOutcome, NoBody, NoBody, <<>>)
         /\ UNCHANGED <<v4_isProcessing, v4_medai_token, v4_medai_user, v4_location>>
    ELSE IF v4_medai_token = NoToken
         THEN \* fetchSecure: no token, logout, return; `if (!response) return`; finally
              /\ V4Logout
              /\ v4_isProcessing' = FALSE
              /\ V4End(t, c, "noToken", NoOutcome, NoBody, NoBody, <<>>)
         ELSE /\ v4_isProcessing' = TRUE
              /\ v4_calls' = [v4_calls EXCEPT ![t] =
                     [c EXCEPT !.pc = "fetch", !.token = v4_medai_token, !.attempt = 0,
                               !.sent = 1, !.timeout = TRUE,
                               !.headers = <<V4Authorization(v4_medai_token)>>]]
              /\ v4_ended' = V4NoEnded
              /\ UNCHANGED <<v4_medai_token, v4_medai_user, v4_location>>

\* The catch block without the finally block.
V4AnalysisFailedNoFinally(t, c, error, body, presented) ==
    /\ V4End(t, c, "failed", error, body, presented, <<"Analysis failed.">>)
    /\ UNCHANGED <<v4_isProcessing, v4_medai_token, v4_medai_user, v4_location>>

\* sendForAnalysis: the catch block and the finally block, after `error` was thrown.
V4AnalysisFailed(t, c, error, body, presented) ==
    /\ v4_isProcessing' = FALSE
    /\ V4End(t, c, "failed", error, body, presented, <<"Analysis failed.">>)
    /\ UNCHANGED <<v4_medai_token, v4_medai_user, v4_location>>

\* The continuation of fetchSecure after attempt c.attempt settled as `outcome`.
V4Settle(t, outcome, step) ==
    LET c == [v4_calls[t] EXCEPT !.outcomes = Append(@, outcome), !.timeout = FALSE] IN
    CASE step.do = "logout" ->
            /\ V4Logout
            /\ v4_isProcessing' = FALSE
            /\ V4End(t, c, "authRejected", NoOutcome, NoBody, NoBody,
                     <<"Session expired. Please login again.">>)
      [] step.do = "sleep" ->
            /\ v4_calls' = [v4_calls EXCEPT ![t] =
                   [c EXCEPT !.pc = "sleep", !.delays = Append(@, step.ms)]]
            /\ v4_ended' = V4NoEnded
            /\ UNCHANGED <<v4_isProcessing, v4_medai_token, v4_medai_user, v4_location>>
      [] step.do = "throw" ->
            V4AnalysisFailed(t, c, step.err, NoBody, NoBody)
      [] step.do = "return" ->
            /\ v4_calls' = [v4_calls EXCEPT ![t] = [c EXCEPT !.pc = "json"]]
            /\ v4_ended' = V4NoEnded
            /\ UNCHANGED <<v4_isProcessing, v4_medai_token, v4_medai_user, v4_location>>

\* rateLimitCheck(): the request comes too early.
V4RateLimitedNever == FALSE
V4RateLimited == v4_now - v4_lastRequestTime < V4_COOLDOWN_MS

\* click on #capture-trigger: safeCapture() up to its first await.
V4_SafeCapture(frameAvailable) ==
    /\ V4PageLive
    /\ V4Frame
    /\ V4HasFreeSlot
    /\ UNCHANGED <<v4_isOnline, v4_now, v4_medai_token, v4_medai_user, v4_location,
                   v4_isProcessing>>
    /\ LET c == [V4IdleCall EXCEPT !.src = "capture"] IN
       IF v4_isProcessing \/ ~v4_isOnline
       THEN /\ v4_ended' = V4Ended(c, "refused", NoOutcome, NoBody, NoBody, <<>>)
            /\ UNCHANGED <<v4_lastRequestTime, v4_calls>>
       ELSE IF V4RateLimited
            THEN /\ v4_ended' = V4Ended(c, "rateLimited", NoOutcome, NoBody, NoBody,
                                        <<"Please wait before next request.">>)
                 /\ UNCHANGED <<v4_lastRequestTime, v4_calls>>
            ELSE /\ v4_lastRequestTime' = v4_now
                 /\ IF frameAvailable
                    THEN /\ v4_calls' = [v4_calls EXCEPT ![V4FreeSlot] =
                                [c EXCEPT !.pc = "captureFrame"]]
                         /\ v4_ended' = V4NoEnded
                    ELSE \* captureFrame rejects at once: no video or no videoWidth
                         /\ v4_ended' = V4Ended(c, "captureFailed", NoOutcome, NoBody,
                                                NoBody, <<"Capture failed.">>)
                         /\ UNCHANGED v4_calls

\* canvas.toBlob calls back: captureFrame settles and safeCapture goes on.
V4_FrameReady(t, blob) ==
    /\ V4PageLive
    /\ V4Frame
    /\ v4_calls[t].pc = "captureFrame"
    /\ UNCHANGED <<v4_isOnline, v4_now, v4_lastRequestTime>>
    /\ IF blob
       THEN V4SendForAnalysis(t, v4_calls[t])
       ELSE /\ V4End(t, v4_calls[t], "captureFailed", NoOutcome, NoBody, NoBody,
                     <<"Capture failed.">>)
            /\ UNCHANGED <<v4_isProcessing, v4_medai_token, v4_medai_user, v4_location>>

\* change event of the hidden file input (createFileInput).
V4_FileChange(size) ==
    /\ V4PageLive
    /\ V4Frame
    /\ V4HasFreeSlot
    /\ UNCHANGED <<v4_isOnline, v4_now, v4_lastRequestTime>>
    /\ V4SendForAnalysis(V4FreeSlot,
                         [V4IdleCall EXCEPT !.src = "file"])

\* The fetch of the current attempt resolves with a response.
V4_FetchResponse(t, status) ==
    /\ V4PageLive
    /\ V4Frame
    /\ v4_calls[t].pc = "fetch"
    /\ UNCHANGED <<v4_isOnline, v4_now, v4_lastRequestTime>>
    /\ V4Settle(t, StatusOutcome(status), V4FetchSecureResponse(v4_calls[t].attempt, status))

\* The fetch of the current attempt rejects: the network failed.
V4_FetchNetworkError(t) ==
    /\ V4PageLive
    /\ V4Frame
    /\ v4_calls[t].pc = "fetch"
    /\ UNCHANGED <<v4_isOnline, v4_now, v4_lastRequestTime>>
    /\ V4Settle(t, TypeErrorOutcome, V4FetchSecureCatch(v4_calls[t].attempt, TypeErrorOutcome))

\* The attempt's timer fires: controller.abort(), the fetch rejects with AbortError.
V4_FetchTimeout(t) ==
    /\ V4PageLive
    /\ V4Frame
    /\ v4_calls[t].pc = "fetch"
    /\ v4_calls[t].timeout
    /\ UNCHANGED <<v4_isOnline, v4_now, v4_lastRequestTime>>
    /\ V4Settle(t, AbortErrorOutcome, V4FetchSecureCatch(v4_calls[t].attempt, AbortErrorOutcome))

\* The backoff sleep ends: attempt++, the loop test, a new controller, timer and fetch.
V4_SleepDone(t) ==
    /\ V4PageLive
    /\ V4Frame
    /\ v4_calls[t].pc = "sleep"
    /\ UNCHANGED <<v4_isOnline, v4_lastRequestTime, v4_now, v4_medai_token, v4_medai_user,
                   v4_location>>
    /\ IF v4_calls[t].attempt + 1 <= V4_MAX_RETRIES
       THEN /\ v4_calls' = [v4_calls EXCEPT ![t] =
                   [@ EXCEPT !.pc = "fetch", !.attempt = @ + 1, !.sent = @ + 1,
                             !.timeout = TRUE,
                             !.headers = Append(@, V4Authorization(v4_calls[t].token))]]
            /\ v4_ended' = V4NoEnded
            /\ UNCHANGED v4_isProcessing
       ELSE \* the loop ends: fetchSecure returns undefined, `if (!response) return`
            /\ v4_isProcessing' = FALSE
            /\ V4End(t, [v4_calls[t] EXCEPT !.attempt = @ + 1], "noResponse", NoOutcome,
                     NoBody, NoBody, <<>>)

\* response.json() settles; sendForAnalysis validates and presents.
V4_JsonDone(t, body) ==
    /\ V4PageLive
    /\ V4Frame
    /\ v4_calls[t].pc = "json"
    /\ UNCHANGED <<v4_isOnline, v4_now, v4_lastRequestTime>>
    /\ LET c == v4_calls[t] IN
       IF body.kind = "malformed"
       THEN V4AnalysisFailed(t, c, SyntaxErrorOutcome, body, NoBody)
       ELSE IF ~V4ValidateResponseSchema(body)
            THEN V4AnalysisFailed(t, c, InvalidResponse, body, NoBody)
            ELSE IF V4HasDisplayResults
                 THEN /\ v4_isProcessing' = FALSE
                      /\ V4End(t, c, "success", NoOutcome, body, body, <<>>)
                      /\ UNCHANGED <<v4_medai_token, v4_medai_user, v4_location>>
                 ELSE V4AnalysisFailed(t, c, NotAFunction, body, body)

V4_Online ==
    /\ V4PageLive
    /\ V4Frame
    /\ ~v4_isOnline
    /\ v4_isOnline' = TRUE
    /\ v4_ended' = V4NoEnded
    /\ UNCHANGED <<v4_isProcessing, v4_lastRequestTime, v4_now, v4_medai_token,
                   v4_medai_user, v4_location, v4_calls>>

V4_Offline ==
    /\ V4PageLive
    /\ V4Frame
    /\ v4_isOnline
    /\ v4_isOnline' = FALSE
    /\ v4_ended' = [V4NoEnded EXCEPT !.src = "offline", !.notes = <<"Offline. Network required.">>]
    /\ UNCHANGED <<v4_isProcessing, v4_lastRequestTime, v4_now, v4_medai_token,
                   v4_medai_user, v4_location, v4_calls>>

\* click on #logout-btn
V4_LogoutClick ==
    /\ V4PageLive
    /\ V4Frame
    /\ V4Logout
    /\ v4_ended' = V4NoEnded
    /\ UNCHANGED <<v4_isProcessing, v4_isOnline, v4_lastRequestTime, v4_now, v4_calls>>

\* Another page of the origin (the login page) writes the session.
V4_StorageLogin(tok, user) ==
    /\ V4PageLive
    /\ V4Frame
    /\ v4_medai_token # tok
    /\ v4_medai_token' = tok
    /\ v4_medai_user' = user
    /\ v4_ended' = V4NoEnded
    /\ UNCHANGED <<v4_isProcessing, v4_isOnline, v4_lastRequestTime, v4_now,
                   v4_location, v4_calls>>

\* Another page of the origin removes the session.
V4_StorageLogout ==
    /\ V4PageLive
    /\ V4Frame
    /\ v4_medai_token # NoToken
    /\ v4_medai_token' = NoToken
    /\ v4_medai_user' = NoUser
    /\ v4_ended' = V4NoEnded
    /\ UNCHANGED <<v4_isProcessing, v4_isOnline, v4_lastRequestTime, v4_now,
                   v4_location, v4_calls>>

\* Time passes: half a cooldown.
V4_Tick ==
    /\ V4PageLive
    /\ V4Frame
    /\ v4_now < 2 * V4_COOLDOWN_MS + MaxTicks * (V4_COOLDOWN_MS \div 2)
    /\ v4_now' = v4_now + V4_COOLDOWN_MS \div 2
    /\ v4_ended' = V4NoEnded
    /\ UNCHANGED <<v4_isProcessing, v4_isOnline, v4_lastRequestTime, v4_medai_token,
                   v4_medai_user, v4_location, v4_calls>>

\* The page after `new MedAIApp().init()`: enforceAuth has redirected when no
\* token was stored.  Date.now() counts from 1970: it starts beyond the cooldown.
V4Init ==
    /\ v4_isProcessing = FALSE
    /\ v4_isOnline \in BOOLEAN
    /\ v4_lastRequestTime = 0
    /\ v4_now = 2 * V4_COOLDOWN_MS
    /\ \/ v4_medai_token = "tokA" /\ v4_medai_user \in Users /\ v4_location = "dash.html"
       \/ v4_medai_token = NoToken /\ v4_medai_user = NoUser /\ v4_location = V4_REDIRECT_LOGIN
    /\ v4_calls = [t \in V4Slots |-> V4IdleCall]
    /\ v4_ended = V4NoEnded

\* A body that passes the schema check and carries an unknown field.
ValidBody ==
    [kind |-> "object", diagnosis |-> "string", findings |-> "array_empty",
     confidence |-> "number", extra |-> TRUE]

\* The responses explored under every interleaving of the page's events.
SomeStatuses == {200, 401, 404, 503}
SomeBodies == {ValidBody, [ValidBody EXCEPT !.findings = "undefined"], PlainBody("malformed")}

\* Every event of the page, with a representative of each class of response.
V4Next ==
    \/ \E f \in BOOLEAN : V4_SafeCapture(f)
    \/ \E t \in V4Slots, b \in BOOLEAN : V4_FrameReady(t, b)
    \/ \E s \in FileSizes : V4_FileChange(s)
    \/ \E t \in V4Slots, s \in SomeStatuses : V4_FetchResponse(t, s)
    \/ \E t \in V4Slots : V4_FetchNetworkError(t)
    \/ \E t \in V4Slots : V4_FetchTimeout(t)
    \/ \E t \in V4Slots : V4_SleepDone(t)
    \/ \E t \in V4Slots, b \in SomeBodies : V4_JsonDone(t, b)
    \/ V4_Online
    \/ V4_Offline
    \/ V4_LogoutClick
    \/ \E tok \in Tokens, u \in Users : V4_StorageLogin(tok, u)
    \/ V4_StorageLogout
    \/ V4_Tick

\* The analysis calls alone (captures and file selections), with every status
\* and every body.
V4CallNext ==
    \/ \E f \in BOOLEAN : V4_SafeCapture(f)
    \/ \E t \in V4Slots, b \in BOOLEAN : V4_FrameReady(t, b)
    \/ \E s \in FileSizes : V4_FileChange(s)
    \/ \E t \in V4Slots, s \in Statuses : V4_FetchResponse(t, s)
    \/ \E t \in V4Slots : V4_FetchNetworkError(t)
    \/ \E t \in V4Slots : V4_FetchTimeout(t)
    \/ \E t \in V4Slots : V4_SleepDone(t)
    \/ \E t \in V4Slots, b \in Bodies : V4_JsonDone(t, b)

(***************************************************************************)
(* dash.js, MedAIApp v2.5.0                                                *)
(***************************************************************************)
DASH_REQUEST_TIMEOUT == 30000
DASH_MAX_RETRIES == 2

DashSlots == 1..MaxCalls

DashIdleCall ==
    [pc |-> "idle", src |-> "none", i |-> 0, sent |-> 0, timer |-> FALSE,
     interval |-> FALSE, delays |-> <<>>, body |-> NoBody, cancelled |-> FALSE,
     authorization |-> "none"]

DashNoEnded ==
    [src |-> "none", i |-> 0, sent |-> 0, last |-> NoOutcome, delays |-> <<>>,
     notes |-> <<>>, result |-> "none", error |-> NoOutcome, body |-> NoBody,
     presented |-> NoBody, cancelled |-> FALSE]

DashNotFired == [owner |-> 0, target |-> 0]

RequestTimeoutError == [kind |-> "Error", status |-> 1]  \* new Error('Request timeout - please try again')
DashServerError(s)  == [kind |-> "Error", status |-> s]  \* new Error(`Server error: ${response.status}`)
InvalidFormat       == [kind |-> "Error", status |-> 2]  \* new Error("Invalid response format")
CaptureError        == [kind |-> "Error", status |-> 3]  \* captureFrame rejects
NullProperty        == [kind |-> "TypeError", status |-> 2]  \* data.diagnosis of null

\* A test that takes every error message for a timeout.
MessageIncludesTimeoutAlways(err) == TRUE

\* err.message.includes('timeout'), lines 327 and 406
MessageIncludesTimeout(err) == err = RequestTimeoutError

\* fetchWithTimeout, the catch block: the error it throws for a rejected fetch.
DashFetchWithTimeoutError(outcome) ==
    IF outcome.kind = "AbortError" THEN RequestTimeoutError ELSE outcome

\* fetchWithRetry, the backoff after failed attempt i.
DashBackoff(i) == 1000 * 2^i

\* fetchWithRetry, the catch block.
DashFetchWithRetryCatch(i, err) ==
    IF i = DASH_MAX_RETRIES
    THEN [do |-> "throw", err |-> err, ms |-> 0]
    ELSE [do |-> "sleep", err |-> err, ms |-> DashBackoff(i)]

\* handleCapture line 270: the guard on a capture in progress.
DashHandleCaptureBusy == dash_isProcessing

\* processLocalFile has no guard on state.isProcessing.
DashProcessLocalFileBusy == FALSE

\* validateCameraState() returns true (throws otherwise).
DashValidateCameraStateStreamOnly == dash_cameraStream # "null"
DashValidateCameraState == dash_cameraStream # "null" /\ dash_videoReady

\* A rejection waits in the microtask queue: its reaction runs before any event.
DashMicrotask == \E t \in DashSlots : dash_calls[t].pc = "rejected"
DashReady == ~DashMicrotask

DashHasFreeSlot == \E t \in DashSlots : dash_calls[t].pc = "idle"
DashFreeSlot == CHOOSE t \in DashSlots :
                   dash_calls[t].pc = "idle" /\ \A u \in DashSlots : u < t => dash_calls[u].pc # "idle"

\* The page of dash.js shares no state with the other revisions.
DashFrame == UNCHANGED <<v4vars, corevars, core2vars, authvars, authappvars, engvars, confvars, swvars, camvars, torchvars>>

DashEnded(c, last, result, error, presented, notes) ==
    [src |-> c.src, i |-> c.i, sent |-> c.sent, last |-> last,
     delays |-> c.delays, notes |-> notes, result |-> result, error |-> error,
     body |-> c.body, presented |-> presented, cancelled |-> c.cancelled]

\* handleCapture / processLocalFile: catch (clearInterval, notify) and finally
\* (setLoading(false)) after `err` was thrown, for the call c of slot t.
DashFail(t, c, last, err, presented) ==
    /\ dash_isProcessing' = FALSE
    /\ dash_calls' = [dash_calls EXCEPT ![t] = DashIdleCall]
    /\ dash_ended' = DashEnded(c, last, "failed", err, presented,
            <<IF MessageIncludesTimeout(err)
              THEN "Request timed out. Please try again."
              ELSE "Analysis Failed: Check Connection">>)

\* The Authorization header of the options that handleCapture and
\* processLocalFile build: "none" is no header, any other value v is the
\* header `Bearer v`.  The token is read from localStorage, `|| ""`.
NoAuthorization == "none"
DashAuthorizationHeader ==
    IF auth_localStorage.token = StorageNull THEN "" ELSE auth_localStorage.token

\* fetchWithTimeout(url, options) up to its await, for the call c of slot t:
\* the shared controller is replaced and a timer is set.
DashFetchWithTimeout(t, c) ==
    /\ dash_abortController' = t
    /\ dash_calls' = [dash_calls EXCEPT ![t] =
           [c EXCEPT !.pc = "fetch", !.sent = @ + 1, !.timer = TRUE]]

\* The catch blocks without clearTimeout(timeoutId).
DashRejectedKeepsTimer(t, outcome) ==
    LET c == dash_calls[t]
        step == DashFetchWithRetryCatch(c.i, DashFetchWithTimeoutError(outcome))
    IN  /\ dash_abortController' = 0
        /\ IF step.do = "throw"
           THEN DashFail(t, c, outcome, step.err, NoBody)
           ELSE /\ dash_calls' = [dash_calls EXCEPT ![t] =
                       [c EXCEPT !.pc = "sleep", !.delays = Append(@, step.ms)]]
                /\ dash_ended' = DashNoEnded
                /\ UNCHANGED dash_isProcessing

\* The continuation of fetchWithTimeout and fetchWithRetry after the fetch of
\* call t rejected with `outcome`.
DashRejected(t, outcome) ==
    LET c == [dash_calls[t] EXCEPT !.timer = FALSE]
        step == DashFetchWithRetryCatch(c.i, DashFetchWithTimeoutError(outcome))
    IN  /\ dash_abortController' = 0
        /\ IF step.do = "throw"
           THEN DashFail(t, c, outcome, step.err, NoBody)
           ELSE /\ dash_calls' = [dash_calls EXCEPT ![t] =
                       [c EXCEPT !.pc = "sleep", !.delays = Append(@, step.ms)]]
                /\ dash_ended' = DashNoEnded
                /\ UNCHANGED dash_isProcessing

\* click on #capture-trigger: handleCapture() up to its first await.
Dash_HandleCapture ==
    /\ DashReady /\ ~dash_unloading /\ DashHasFreeSlot
    /\ DashFrame
    /\ dash_fired' = DashNotFired
    /\ UNCHANGED <<dash_isOnline, dash_cameraStream, dash_videoReady, dash_abortController,
                   dash_fileInput, dash_pickerOpen, dash_unloading>>
    /\ LET c == [DashIdleCall EXCEPT !.src = "capture"] IN
       IF DashHandleCaptureBusy
       THEN /\ dash_ended' = DashEnded(c, NoOutcome, "busy", NoOutcome, NoBody, <<>>)
            /\ UNCHANGED <<dash_isProcessing, dash_calls>>
       ELSE IF ~dash_isOnline
            THEN /\ dash_ended' = DashEnded(c, NoOutcome, "offline", NoOutcome, NoBody,
                                            <<"No internet connection">>)
                 /\ UNCHANGED <<dash_isProcessing, dash_calls>>
            ELSE IF ~DashValidateCameraState
                 THEN /\ dash_ended' = DashEnded(c, NoOutcome, "noCamera", NoOutcome, NoBody,
                                                 <<"Camera not ready">>)
                      /\ UNCHANGED <<dash_isProcessing, dash_calls>>
                 ELSE /\ dash_isProcessing' = TRUE
                      /\ dash_calls' = [dash_calls EXCEPT ![DashFreeSlot] =
                             [c EXCEPT !.pc = "captureFrame", !.interval = TRUE]]
                      /\ dash_ended' = DashNoEnded

\* canvas.toBlob calls back: captureFrame settles; the request is sent.
Dash_FrameReady(t, blob) ==
    /\ DashReady
    /\ dash_calls[t].pc = "captureFrame"
    /\ DashFrame
    /\ dash_fired' = DashNotFired
    /\ UNCHANGED <<dash_isOnline, dash_cameraStream, dash_videoReady, dash_fileInput,
                   dash_pickerOpen, dash_unloading>>
    /\ IF blob
       THEN /\ DashFetchWithTimeout(t, [dash_calls[t] EXCEPT
                                            !.authorization = DashAuthorizationHeader])
            /\ dash_ended' = DashNoEnded
            /\ UNCHANGED dash_isProcessing
       ELSE /\ DashFail(t, [dash_calls[t] EXCEPT !.interval = FALSE], NoOutcome, CaptureError, NoBody)
            /\ UNCHANGED dash_abortController

\* click on #upload-local: handleLocalFileUpload()
Dash_HandleLocalFileUpload ==
    /\ DashReady /\ ~dash_unloading
    /\ dash_fileInput # "null"          \* this.fileInput.click() on null throws
    /\ DashFrame
    /\ dash_fired' = DashNotFired
    /\ UNCHANGED <<dash_isProcessing, dash_isOnline, dash_cameraStream, dash_videoReady,
                   dash_abortController, dash_fileInput, dash_unloading, dash_calls>>
    /\ IF dash_isProcessing
       THEN /\ dash_ended' = DashEnded([DashIdleCall EXCEPT !.src = "upload"], NoOutcome,
                                       "busy", NoOutcome, NoBody,
                                       <<"Analysis already in progress">>)
            /\ UNCHANGED dash_pickerOpen
       ELSE /\ dash_pickerOpen' = TRUE
            /\ dash_ended' = DashNoEnded

\* The user leaves the file picker without a file: no change event.
Dash_PickerCancel ==
    /\ DashReady /\ ~dash_unloading
    /\ dash_pickerOpen
    /\ DashFrame
    /\ dash_pickerOpen' = FALSE
    /\ dash_ended' = DashNoEnded
    /\ dash_fired' = DashNotFired
    /\ UNCHANGED <<dash_isProcessing, dash_isOnline, dash_cameraStream, dash_videoReady,
                   dash_abortController, dash_fileInput, dash_unloading, dash_calls>>

\* change event of the file input: processLocalFile(file) up to its first await.
Dash_ProcessLocalFile(file) ==
    /\ DashReady /\ ~dash_unloading /\ DashHasFreeSlot
    /\ dash_pickerOpen
    /\ DashFrame
    /\ dash_pickerOpen' = FALSE
    /\ dash_fired' = DashNotFired
    /\ UNCHANGED <<dash_isOnline, dash_cameraStream, dash_videoReady, dash_fileInput,
                   dash_unloading>>
    /\ LET c == [DashIdleCall EXCEPT !.src = "file"] IN
       IF DashProcessLocalFileBusy
       THEN /\ dash_ended' = DashEnded(c, NoOutcome, "busy", NoOutcome, NoBody, <<>>)
            /\ UNCHANGED <<dash_isProcessing, dash_abortController, dash_calls>>
       ELSE IF file = "badType"
            THEN /\ dash_ended' = DashEnded(c, NoOutcome, "badType", NoOutcome, NoBody,
                                            <<"Unsupported file format.">>)
                 /\ UNCHANGED <<dash_isProcessing, dash_abortController, dash_calls>>
            ELSE IF file = "tooLarge"
                 THEN /\ dash_ended' = DashEnded(c, NoOutcome, "tooLarge", NoOutcome, NoBody,
                                                 <<"File too large.">>)
                      /\ UNCHANGED <<dash_isProcessing, dash_abortController, dash_calls>>
                 ELSE /\ dash_isProcessing' = TRUE
                      /\ DashFetchWithTimeout(DashFreeSlot,
                             [c EXCEPT !.interval = TRUE,
                                       !.authorization = DashAuthorizationHeader])
                      /\ dash_ended' = DashNoEnded

\* The fetch of call t resolves with a response: fetchWithTimeout and
\* fetchWithRetry return it, the handler tests response.ok.
Dash_FetchResponse(t, status) ==
    /\ DashReady
    /\ dash_calls[t].pc = "fetch"
    /\ DashFrame
    /\ dash_fired' = DashNotFired
    /\ dash_abortController' = 0
    /\ UNCHANGED <<dash_isOnline, dash_cameraStream, dash_videoReady, dash_fileInput,
                   dash_pickerOpen, dash_unloading>>
    /\ LET c == [dash_calls[t] EXCEPT !.timer = FALSE] IN
       IF ~Ok(status)
       THEN DashFail(t, [c EXCEPT !.interval = FALSE], StatusOutcome(status),
                     DashServerError(status), NoBody)
       ELSE /\ dash_calls' = [dash_calls EXCEPT ![t] = [c EXCEPT !.pc = "json"]]
            /\ dash_ended' = DashNoEnded
            /\ UNCHANGED dash_isProcessing

\* The fetch of call t rejects: the network failed.
Dash_FetchNetworkError(t) ==
    /\ DashReady
    /\ dash_calls[t].pc = "fetch"
    /\ DashFrame
    /\ dash_fired' = DashNotFired
    /\ UNCHANGED <<dash_isOnline, dash_cameraStream, dash_videoReady, dash_fileInput,
                   dash_pickerOpen, dash_unloading>>
    /\ DashRejected(t, TypeErrorOutcome)

\* The timer set by call t's fetchWithTimeout fires: the callback aborts
\* whatever this.abortController references now.
Dash_TimeoutFires(t) ==
    /\ DashReady
    /\ dash_calls[t].timer
    /\ DashFrame
    /\ dash_fired' = [owner |-> t, target |-> dash_abortController]
    /\ dash_ended' = DashNoEnded
    /\ dash_calls' = [u \in DashSlots |->
           LET c == IF u = t THEN [dash_calls[u] EXCEPT !.timer = FALSE] ELSE dash_calls[u]
           IN  IF u = dash_abortController /\ c.pc = "fetch"
               THEN [c EXCEPT !.pc = "rejected"]
               ELSE c]
    /\ UNCHANGED <<dash_isProcessing, dash_isOnline, dash_cameraStream, dash_videoReady,
                   dash_abortController, dash_fileInput, dash_pickerOpen, dash_unloading>>

\* The reaction to a fetch rejected by abort(): the catch blocks of
\* fetchWithTimeout and fetchWithRetry.
Dash_FetchAborted(t) ==
    /\ dash_calls[t].pc = "rejected"
    /\ DashFrame
    /\ dash_fired' = DashNotFired
    /\ UNCHANGED <<dash_isOnline, dash_cameraStream, dash_videoReady, dash_fileInput,
                   dash_pickerOpen, dash_unloading>>
    /\ DashRejected(t, AbortErrorOutcome)

\* The backoff sleep ends: i++, the next fetchWithTimeout.
Dash_SleepDone(t) ==
    /\ DashReady
    /\ dash_calls[t].pc = "sleep"
    /\ DashFrame
    /\ dash_fired' = DashNotFired
    /\ UNCHANGED <<dash_isOnline, dash_cameraStream, dash_videoReady, dash_fileInput,
                   dash_pickerOpen, dash_unloading>>
    /\ IF dash_calls[t].i + 1 <= DASH_MAX_RETRIES
       THEN /\ DashFetchWithTimeout(t, [dash_calls[t] EXCEPT !.i = @ + 1])
            /\ dash_ended' = DashNoEnded
            /\ UNCHANGED dash_isProcessing
       ELSE \* the loop ends: fetchWithRetry returns undefined, `response.ok` throws
            /\ DashFail(t, [dash_calls[t] EXCEPT !.i = @ + 1, !.interval = FALSE],
                        NoOutcome, NullProperty, NoBody)
            /\ UNCHANGED dash_abortController

\* handleCapture lines 318-320: the check of the decoded data.
DashCaptureDataOk(data) ==
    Truthy(data) /\ data.kind \in {"object", "array_empty"}

\* displayResults(data) throws: `data.diagnosis` of null.
DashDisplayResultsThrows(data) == data.kind = "null"

\* response.json() settles: the handler checks the data (handleCapture only)
\* and awaits displayResults(data), whose sleeps touch no state of the handlers.
Dash_JsonDone(t, body) ==
    /\ DashReady
    /\ dash_calls[t].pc = "json"
    /\ DashFrame
    /\ dash_fired' = DashNotFired
    /\ UNCHANGED <<dash_isOnline, dash_cameraStream, dash_videoReady, dash_abortController,
                   dash_fileInput, dash_pickerOpen, dash_unloading>>
    /\ LET c == [dash_calls[t] EXCEPT !.body = body, !.interval = FALSE] IN
       IF body.kind = "malformed"
       THEN DashFail(t, c, StatusOutcome(200), SyntaxErrorOutcome, NoBody)
       ELSE IF c.src = "capture" /\ ~DashCaptureDataOk(body)
            THEN DashFail(t, c, StatusOutcome(200), InvalidFormat, NoBody)
            ELSE IF DashDisplayResultsThrows(body)
                 THEN DashFail(t, c, StatusOutcome(200), NullProperty, body)
                 ELSE /\ dash_isProcessing' = FALSE
                      /\ dash_calls' = [dash_calls EXCEPT ![t] = DashIdleCall]
                      /\ dash_ended' = DashEnded(c, StatusOutcome(200), "success", NoOutcome,
                             body, IF c.src = "file" THEN <<"Analysis complete">> ELSE <<>>)

\* getUserMedia resolves and the video gets its first frame / loses it.
Dash_CameraGranted ==
    /\ DashReady /\ ~dash_unloading
    /\ dash_cameraStream = "pending"
    /\ DashFrame
    /\ dash_cameraStream' = "live"
    /\ dash_ended' = DashNoEnded
    /\ dash_fired' = DashNotFired
    /\ UNCHANGED <<dash_isProcessing, dash_isOnline, dash_videoReady, dash_abortController,
                   dash_fileInput, dash_pickerOpen, dash_unloading, dash_calls>>

Dash_VideoReady ==
    /\ DashReady /\ ~dash_unloading
    /\ dash_cameraStream = "live" /\ ~dash_videoReady
    /\ DashFrame
    /\ dash_videoReady' = TRUE
    /\ dash_ended' = DashNoEnded
    /\ dash_fired' = DashNotFired
    /\ UNCHANGED <<dash_isProcessing, dash_isOnline, dash_cameraStream, dash_abortController,
                   dash_fileInput, dash_pickerOpen, dash_unloading, dash_calls>>

Dash_Online ==
    /\ DashReady /\ ~dash_unloading
    /\ ~dash_isOnline
    /\ DashFrame
    /\ dash_isOnline' = TRUE
    /\ dash_ended' = DashNoEnded
    /\ dash_fired' = DashNotFired
    /\ UNCHANGED <<dash_isProcessing, dash_cameraStream, dash_videoReady, dash_abortController,
                   dash_fileInput, dash_pickerOpen, dash_unloading, dash_calls>>

Dash_Offline ==
    /\ DashReady /\ ~dash_unloading
    /\ dash_isOnline
    /\ DashFrame
    /\ dash_isOnline' = FALSE
    /\ dash_ended' = [DashNoEnded EXCEPT !.src = "offline",
                          !.notes = <<"You are offline. Please check your connection.">>]
    /\ dash_fired' = DashNotFired
    /\ UNCHANGED <<dash_isProcessing, dash_cameraStream, dash_videoReady, dash_abortController,
                   dash_fileInput, dash_pickerOpen, dash_unloading, dash_calls>>

\* beforeunload: cleanup()
Dash_Cleanup ==
    /\ DashReady /\ ~dash_unloading
    /\ DashFrame
    /\ dash_unloading' = TRUE
    /\ dash_cameraStream' = IF dash_cameraStream = "live" THEN "null" ELSE dash_cameraStream
    /\ dash_videoReady' = (dash_videoReady /\ dash_cameraStream # "live")
    /\ dash_abortController' = 0
    /\ dash_calls' = [u \in DashSlots |->
           IF u = dash_abortController /\ dash_calls[u].pc = "fetch"
           THEN [dash_calls[u] EXCEPT !.pc = "rejected", !.cancelled = TRUE]
           ELSE dash_calls[u]]
    /\ dash_fileInput' = "null"
    /\ dash_pickerOpen' = FALSE
    /\ dash_ended' = DashNoEnded
    /\ dash_fired' = DashNotFired
    /\ UNCHANGED <<dash_isProcessing, dash_isOnline>>

\* The page after `window.App.init()`: initCamera waits for getUserMedia.
DashInit ==
    /\ dash_isProcessing = FALSE
    /\ dash_isOnline \in BOOLEAN
    /\ dash_cameraStream \in {"pending", "null"}
    /\ dash_videoReady = FALSE
    /\ dash_abortController = 0
    /\ dash_fileInput = "input"
    /\ dash_pickerOpen = FALSE
    /\ dash_unloading = FALSE
    /\ dash_calls = [t \in DashSlots |-> DashIdleCall]
    /\ dash_ended = DashNoEnded
    /\ dash_fired = DashNotFired

Files == {"ok", "badType", "tooLarge"}

DashNext ==
    \/ Dash_HandleCapture
    \/ \E t \in DashSlots, b \in BOOLEAN : Dash_FrameReady(t, b)
    \/ Dash_HandleLocalFileUpload
    \/ Dash_PickerCancel
    \/ \E f \in Files : Dash_ProcessLocalFile(f)
    \/ \E t \in DashSlots, s \in SomeStatuses : Dash_FetchResponse(t, s)
    \/ \E t \in DashSlots : Dash_FetchNetworkError(t)
    \/ \E t \in DashSlots : Dash_TimeoutFires(t)
    \/ \E t \in DashSlots : Dash_FetchAborted(t)
    \/ \E t \in DashSlots : Dash_SleepDone(t)
    \/ \E t \in DashSlots, b \in SomeBodies \cup {PlainBody("null")} : Dash_JsonDone(t, b)
    \/ Dash_CameraGranted
    \/ Dash_VideoReady
    \/ Dash_Online
    \/ Dash_Offline
    \/ Dash_Cleanup

(***************************************************************************)
(* unnamed/part_002, MedAICore v1.0.0                                      *)
(***************************************************************************)
CORE_TIMEOUT == 30000

CoreSlots == 1..MaxCalls

CoreIdleCall == [pc |-> "idle", src |-> "none", timer |-> FALSE]
CoreNoEnded ==
    [slot |-> 0, src |-> "none", result |-> "none", error |-> NoOutcome, notes |-> <<>>,
     presented |-> NoBody]

SessionInvalid == [kind |-> "Error", status |-> 4]  \* new Error("Session invalid. Re-authenticating...")
EngineBusy     == [kind |-> "Error", status |-> 5]  \* new Error("AI engine busy. Try again.")
PhotoError     == [kind |-> "Error", status |-> 6]  \* takePhoto rejects

CoreFrame == UNCHANGED <<v4vars, dashvars, core2vars, authvars, authappvars, engvars, confvars, swvars, camvars, torchvars>>

\* The page is alive until the redirect to index.html.
CoreLive == core_redirect # "done"

\* A rejected fetch has its reaction queued as a microtask, which runs before
\* any other event.
CoreMicrotask == \E t \in CoreSlots : core_calls[t].pc = "rejected"
CoreReady == CoreLive /\ ~CoreMicrotask

CoreHasFreeSlot == \E t \in CoreSlots : core_calls[t].pc = "idle"
CoreFreeSlot == CHOOSE t \in CoreSlots :
                   core_calls[t].pc = "idle" /\ \A u \in CoreSlots : u < t => core_calls[u].pc # "idle"

CoreInFlight == {t \in CoreSlots : core_calls[t].pc \in {"fetch", "json"}}
CoreTimers == core_staleTimers + Cardinality({t \in CoreSlots : core_calls[t].timer})

\* A new request is started only while fewer than MaxTimers timers are pending.
CoreTimerRoom == CoreTimers < MaxTimers

\* uploadToAI line 130 without the abort of the previous controller.
CoreAbortPreviousNever(u) == FALSE

\* uploadToAI line 130, this.state.controller?.abort(): the request of call u,
\* in flight on the controller, is aborted.
CoreAbortPrevious(u) == u = core_controller /\ u \in CoreInFlight

\* What the catch block of the handler shows for the error.
CoreErrorMessage(src, err) ==
    IF src = "capture" /\ err = AbortErrorOutcome
    THEN "Server is warming up. Retrying in 3s..."
    ELSE CASE err = AbortErrorOutcome -> "signal is aborted without reason"
           [] err = SessionInvalid -> "Session invalid. Re-authenticating..."
           [] err = EngineBusy -> "AI engine busy. Try again."
           [] err = TypeErrorOutcome -> "Failed to fetch"
           [] err = SyntaxErrorOutcome -> "Unexpected token"
           [] err = NullProperty -> "Cannot read properties of null"
           [] OTHER -> "Analysis failed."

\* The handler's catch (notify) and finally (toggleLoading(false)) for the
\* call c of slot t; a timer the call leaves pending stays pending.
CoreFail(t, c, err) ==
    /\ core_isProcessing' = FALSE
    /\ core_calls' = [core_calls EXCEPT ![t] = CoreIdleCall]
    /\ core_staleTimers' = core_staleTimers + (IF c.timer THEN 1 ELSE 0)
    /\ core_ended' = [slot |-> t, src |-> c.src, result |-> "failed", error |-> err,
                      notes |-> <<CoreErrorMessage(c.src, err)>>, presented |-> NoBody]

\* uploadToAI(blob) up to its await, for the call c of slot t: the previous
\* controller is aborted, a new one made, the timer set, the request sent.
CoreUploadToAI(t, c) ==
    /\ core_controller' = t
    /\ core_calls' = [u \in CoreSlots |->
           IF u = t THEN [c EXCEPT !.pc = "fetch", !.timer = TRUE]
           ELSE IF CoreAbortPrevious(u) THEN [core_calls[u] EXCEPT !.pc = "rejected"]
           ELSE core_calls[u]]

\* click on #capture-trigger: handleCapture() up to its first await.
Core_HandleCapture ==
    /\ CoreReady /\ CoreHasFreeSlot
    /\ core_isProcessing \/ core_medai_token = NoToken \/ CoreTimerRoom
    /\ CoreFrame
    /\ UNCHANGED <<core_controller, core_medai_token, core_pickerOpen, core_staleTimers>>
    /\ LET c == [CoreIdleCall EXCEPT !.src = "capture"]
           t == CoreFreeSlot IN
       IF core_isProcessing
       THEN /\ core_ended' = [CoreNoEnded EXCEPT !.src = "capture", !.result = "busy"]
            /\ UNCHANGED <<core_isProcessing, core_redirect, core_calls>>
       ELSE IF core_medai_token = NoToken
            THEN /\ core_ended' = [CoreNoEnded EXCEPT !.src = "capture", !.result = "noToken",
                                      !.notes = <<"Session expired. Please log in.">>]
                 /\ core_redirect' = "pending"
                 /\ UNCHANGED <<core_isProcessing, core_calls>>
            ELSE /\ core_isProcessing' = TRUE
                 /\ core_calls' = [core_calls EXCEPT ![t] = [c EXCEPT !.pc = "captureFrame"]]
                 /\ core_ended' = CoreNoEnded
                 /\ UNCHANGED core_redirect

\* takePhoto() / captureFallback() settles: the request is sent, or the
\* rejection goes to the catch block.
Core_PhotoReady(t, photo) ==
    /\ CoreReady
    /\ core_calls[t].pc = "captureFrame"
    /\ CoreFrame
    /\ UNCHANGED <<core_medai_token, core_pickerOpen, core_redirect>>
    /\ IF photo
       THEN /\ CoreUploadToAI(t, core_calls[t])
            /\ core_ended' = CoreNoEnded
            /\ UNCHANGED <<core_isProcessing, core_staleTimers>>
       ELSE /\ CoreFail(t, core_calls[t], PhotoError)
            /\ UNCHANGED core_controller

\* click on #upload-local: handleLocalUpload() makes an input and opens its picker.
Core_HandleLocalUpload ==
    /\ CoreReady
    /\ ~core_pickerOpen
    /\ CoreFrame
    /\ core_pickerOpen' = TRUE
    /\ core_ended' = CoreNoEnded
    /\ UNCHANGED <<core_isProcessing, core_controller, core_medai_token, core_staleTimers,
                   core_redirect, core_calls>>

\* The user leaves the picker without a file: no change event.
Core_PickerCancel ==
    /\ CoreReady
    /\ core_pickerOpen
    /\ CoreFrame
    /\ core_pickerOpen' = FALSE
    /\ core_ended' = CoreNoEnded
    /\ UNCHANGED <<core_isProcessing, core_controller, core_medai_token, core_staleTimers,
                   core_redirect, core_calls>>

\* change event of the input: the onchange handler up to its first await.
Core_InputChange ==
    /\ CoreReady /\ CoreHasFreeSlot /\ CoreTimerRoom
    /\ core_pickerOpen
    /\ CoreFrame
    /\ core_pickerOpen' = FALSE
    /\ core_isProcessing' = TRUE
    /\ CoreUploadToAI(CoreFreeSlot, [CoreIdleCall EXCEPT !.src = "file"])
    /\ core_ended' = CoreNoEnded
    /\ UNCHANGED <<core_medai_token, core_staleTimers, core_redirect>>

\* The fetch of call t resolves: the timer is cleared, the status tested.
Core_FetchResponse(t, status) ==
    /\ CoreReady
    /\ core_calls[t].pc = "fetch"
    /\ CoreFrame
    /\ UNCHANGED <<core_controller, core_pickerOpen, core_redirect>>
    /\ LET c == [core_calls[t] EXCEPT !.timer = FALSE] IN
       IF status \in {401, 403}
       THEN /\ core_medai_token' = NoToken
            /\ CoreFail(t, c, SessionInvalid)
       ELSE IF ~Ok(status)
            THEN /\ CoreFail(t, c, EngineBusy)
                 /\ UNCHANGED core_medai_token
            ELSE /\ core_calls' = [core_calls EXCEPT ![t] = [c EXCEPT !.pc = "json"]]
                 /\ core_ended' = CoreNoEnded
                 /\ UNCHANGED <<core_isProcessing, core_medai_token, core_staleTimers>>

\* The fetch of call t rejects, the network failed: no clearTimeout on this path.
Core_FetchNetworkError(t) ==
    /\ CoreReady
    /\ core_calls[t].pc = "fetch"
    /\ CoreFrame
    /\ CoreFail(t, core_calls[t], TypeErrorOutcome)
    /\ UNCHANGED <<core_controller, core_medai_token, core_pickerOpen, core_redirect>>

\* The abort reaches call t (its fetch or the reading of its body rejected).
Core_FetchAborted(t) ==
    /\ CoreLive
    /\ core_calls[t].pc = "rejected"
    /\ CoreFrame
    /\ CoreFail(t, core_calls[t], AbortErrorOutcome)
    /\ UNCHANGED <<core_controller, core_medai_token, core_pickerOpen, core_redirect>>

\* The timer of call t fires while its fetch is pending: it aborts the
\* controller of now.
Core_TimeoutFires(t) ==
    /\ CoreReady
    /\ core_calls[t].timer
    /\ CoreFrame
    /\ core_calls' = [u \in CoreSlots |->
           LET c == IF u = t THEN [core_calls[u] EXCEPT !.timer = FALSE] ELSE core_calls[u]
           IN  IF CoreAbortPrevious(u) THEN [c EXCEPT !.pc = "rejected"] ELSE c]
    /\ core_ended' = CoreNoEnded
    /\ UNCHANGED <<core_isProcessing, core_controller, core_medai_token, core_pickerOpen,
                   core_staleTimers, core_redirect>>

\* A timer left by a request that is over fires: it aborts the controller of now.
Core_StaleTimeoutFires ==
    /\ CoreReady
    /\ core_staleTimers > 0
    /\ CoreFrame
    /\ core_staleTimers' = core_staleTimers - 1
    /\ core_calls' = [u \in CoreSlots |->
           IF CoreAbortPrevious(u) THEN [core_calls[u] EXCEPT !.pc = "rejected"]
           ELSE core_calls[u]]
    /\ core_ended' = CoreNoEnded
    /\ UNCHANGED <<core_isProcessing, core_controller, core_medai_token, core_pickerOpen,
                   core_redirect>>

\* res.json() settles; the handler calls displayDiagnosis(result).
Core_JsonDone(t, body) ==
    /\ CoreReady
    /\ core_calls[t].pc = "json"
    /\ CoreFrame
    /\ UNCHANGED <<core_controller, core_medai_token, core_pickerOpen, core_redirect>>
    /\ IF body.kind = "malformed"
       THEN CoreFail(t, core_calls[t], SyntaxErrorOutcome)
       ELSE IF body.kind = "null"
            THEN CoreFail(t, core_calls[t], NullProperty)
            ELSE /\ core_isProcessing' = FALSE
                 /\ core_calls' = [core_calls EXCEPT ![t] = CoreIdleCall]
                 /\ core_ended' = [slot |-> t, src |-> core_calls[t].src,
                                   result |-> "displayed", error |-> NoOutcome,
                                   notes |-> <<>>, presented |-> body]
                 /\ UNCHANGED core_staleTimers

\* The redirect timer of handleCapture fires: the page is left.
Core_Redirect ==
    /\ CoreReady
    /\ core_redirect = "pending"
    /\ CoreFrame
    /\ core_redirect' = "done"
    /\ core_ended' = CoreNoEnded
    /\ UNCHANGED <<core_isProcessing, core_controller, core_medai_token, core_pickerOpen,
                   core_staleTimers, core_calls>>

\* The page after `new MedAICore()`.
CoreInit ==
    /\ core_isProcessing = FALSE
    /\ core_controller = 0
    /\ core_medai_token \in {"tokA", NoToken}
    /\ core_pickerOpen = FALSE
    /\ core_staleTimers = 0
    /\ core_redirect = "none"
    /\ core_calls = [t \in CoreSlots |-> CoreIdleCall]
    /\ core_ended = CoreNoEnded

CoreNext ==
    \/ Core_HandleCapture
    \/ \E t \in CoreSlots, b \in BOOLEAN : Core_PhotoReady(t, b)
    \/ Core_HandleLocalUpload
    \/ Core_PickerCancel
    \/ Core_InputChange
    \/ \E t \in CoreSlots, s \in SomeStatuses : Core_FetchResponse(t, s)
    \/ \E t \in CoreSlots : Core_FetchNetworkError(t)
    \/ \E t \in CoreSlots : Core_FetchAborted(t)
    \/ \E t \in CoreSlots : Core_TimeoutFires(t)
    \/ Core_StaleTimeoutFires
    \/ \E t \in CoreSlots, b \in SomeBodies \cup {PlainBody("null")} : Core_JsonDone(t, b)
    \/ Core_Redirect

(***************************************************************************)
(* unnamed/part_001, MedAICore v2.0.0                                      *)
(***************************************************************************)
CORE2_TIMEOUT == 40000
CORE2_RETRY_ATTEMPTS == 3
CORE2_RETRY_DELAY == 1000

Core2Slots == 1..MaxCalls

Core2IdleCall ==
    [pc |-> "idle", attempt |-> 0, timer |-> FALSE, status |-> 0, notes |-> <<>>]
Core2NoEnded ==
    [result |-> "none", attempt |-> 0, error |-> NoOutcome, notes |-> <<>>,
     body |-> NoBody, presented |-> NoBody]

AuthRequired      == [kind |-> "Error", status |-> 7]   \* new Error("Authentication required")
QualityError      == [kind |-> "Error", status |-> 8]   \* new Error(`Image quality insufficient: ...`)
InvalidAIResponse == [kind |-> "Error", status |-> 9]   \* new Error("Invalid response from AI engine")
ApiError(s)       == [kind |-> "Error", status |-> s]   \* new Error(errorData.message || `API Error: ${status}`)

Core2Frame == UNCHANGED <<v4vars, dashvars, corevars, authvars, authappvars, engvars, confvars, swvars, camvars, torchvars>>

\* A rejected fetch has its reaction queued as a microtask, which runs before
\* any other event.
Core2Microtask == \E t \in Core2Slots : core2_calls[t].pc = "rejected"
Core2Ready == ~Core2Microtask

Core2HasFreeSlot == \E t \in Core2Slots : core2_calls[t].pc = "idle"
Core2FreeSlot == CHOOSE t \in Core2Slots :
                    core2_calls[t].pc = "idle" /\ \A u \in Core2Slots : u < t => core2_calls[u].pc # "idle"

\* validateAIResponse(data): any one of the three fields is enough.
Core2ValidateAIResponse(data) ==
    /\ Truthy(data)
    /\ data.kind = "object"
    /\ \/ TypeOf(data.confidence) = "number"
       \/ data.diagnosis # "undefined"
       \/ data.findings # "undefined"

\* revealTrueResults(data) throws: populateFindings calls forEach on a string.
Core2RevealThrows(data) == data.findings = "string"

\* handleCapture: the catch block ("Analysis Failed") and the finally block,
\* for the call c of slot t.
Core2Fail(t, c, err, body, presented) ==
    /\ core2_isProcessing' = FALSE
    /\ core2_calls' = [core2_calls EXCEPT ![t] = Core2IdleCall]
    /\ core2_ended' = [result |-> "failed", attempt |-> c.attempt, error |-> err,
                       notes |-> Append(c.notes, "Analysis Failed"),
                       body |-> body, presented |-> presented]

\* uploadToAIWithRetry, the catch block, after attempt c.attempt threw `err`.
Core2AttemptFailed(t, c, err) ==
    IF c.attempt >= CORE2_RETRY_ATTEMPTS
    THEN Core2Fail(t, c, err, NoBody, NoBody)
    ELSE /\ core2_calls' = [core2_calls EXCEPT ![t] =
                [c EXCEPT !.pc = "sleep", !.notes = Append(@, "Retrying...")]]
         /\ core2_ended' = Core2NoEnded
         /\ UNCHANGED core2_isProcessing

\* What abortAllRequests() does to the call u: its pending fetch or body rejects.
Core2Aborted(u) ==
    IF u \in core2_abortControllers /\ core2_calls[u].pc \in {"fetch", "errjson", "json"}
    THEN [core2_calls[u] EXCEPT !.pc = "rejected"]
    ELSE core2_calls[u]

\* uploadToAI(blob, scanId) up to its await, for the call c of slot t.
Core2UploadToAI(t, c) ==
    IF core2_session = "none"
    THEN /\ core2_abortControllers' = {t}
         /\ core2_calls' = [u \in Core2Slots |->
                IF u = t THEN (IF c.attempt >= CORE2_RETRY_ATTEMPTS THEN Core2IdleCall
                               ELSE [c EXCEPT !.pc = "sleep", !.notes = Append(@, "Retrying...")])
                ELSE Core2Aborted(u)]
         /\ IF c.attempt >= CORE2_RETRY_ATTEMPTS
            THEN /\ core2_isProcessing' = FALSE
                 /\ core2_ended' = [result |-> "failed", attempt |-> c.attempt,
                                    error |-> AuthRequired,
                                    notes |-> Append(c.notes, "Analysis Failed"),
                                    body |-> NoBody, presented |-> NoBody]
            ELSE /\ core2_ended' = Core2NoEnded
                 /\ UNCHANGED core2_isProcessing
    ELSE /\ core2_abortControllers' = {t}
         /\ core2_calls' = [u \in Core2Slots |->
                IF u = t THEN [c EXCEPT !.pc = "fetch", !.timer = TRUE, !.status = 0]
                ELSE Core2Aborted(u)]
         /\ core2_ended' = Core2NoEnded
         /\ UNCHANGED core2_isProcessing

\* handleCapture after validateSession() held, up to the await of the photo.
Core2StartCapture(t, c) ==
    /\ core2_isProcessing' = TRUE
    /\ core2_calls' = [core2_calls EXCEPT ![t] =
           [c EXCEPT !.pc = "photo",
                     !.notes = IF core2_online THEN <<"Capture Started">>
                               ELSE <<"Offline Mode", "Capture Started">>]]
    /\ core2_ended' = Core2NoEnded

\* click on the capture button: handleCapture() up to its first macrotask await.
Core2_HandleCapture ==
    /\ Core2Ready /\ Core2HasFreeSlot
    /\ Core2Frame
    /\ UNCHANGED <<core2_session, core2_online, core2_abortControllers>>
    /\ IF core2_isProcessing
       THEN /\ core2_ended' = [Core2NoEnded EXCEPT !.result = "busy", !.notes = <<"System Busy">>]
            /\ UNCHANGED <<core2_isProcessing, core2_calls>>
       ELSE CASE core2_session = "none" ->
                   /\ core2_ended' = [Core2NoEnded EXCEPT !.result = "noSession",
                                         !.notes = <<"Session Expired">>]
                   /\ UNCHANGED <<core2_isProcessing, core2_calls>>
              [] core2_session = "expired" ->
                   /\ core2_calls' = [core2_calls EXCEPT ![Core2FreeSlot] =
                          [Core2IdleCall EXCEPT !.pc = "refresh"]]
                   /\ core2_ended' = Core2NoEnded
                   /\ UNCHANGED core2_isProcessing
              [] OTHER -> Core2StartCapture(Core2FreeSlot, Core2IdleCall)

\* refreshToken() settles: the session is renewed, or validateSession is false.
Core2_RefreshDone(t, ok) ==
    /\ Core2Ready
    /\ core2_calls[t].pc = "refresh"
    /\ Core2Frame
    /\ UNCHANGED <<core2_online, core2_abortControllers>>
    /\ IF ok
       THEN /\ core2_session' = "valid"
            /\ Core2StartCapture(t, core2_calls[t])
       ELSE /\ core2_calls' = [core2_calls EXCEPT ![t] = Core2IdleCall]
            /\ core2_ended' = [Core2NoEnded EXCEPT !.result = "noSession",
                                  !.notes = <<"Session Expired">>]
            /\ UNCHANGED <<core2_session, core2_isProcessing>>

\* takePhoto() / captureFallback() settles.
Core2_PhotoReady(t, photo) ==
    /\ Core2Ready
    /\ core2_calls[t].pc = "photo"
    /\ Core2Frame
    /\ UNCHANGED <<core2_session, core2_online, core2_abortControllers>>
    /\ IF photo
       THEN /\ core2_calls' = [core2_calls EXCEPT ![t] = [@ EXCEPT !.pc = "quality"]]
            /\ core2_ended' = Core2NoEnded
            /\ UNCHANGED core2_isProcessing
       ELSE Core2Fail(t, core2_calls[t], PhotoError, NoBody, NoBody)

\* validateImageQuality(raw) resolves: the first attempt is sent, or the
\* quality error goes to the catch block of handleCapture.
Core2_QualityDone(t, valid) ==
    /\ Core2Ready
    /\ core2_calls[t].pc = "quality"
    /\ Core2Frame
    /\ UNCHANGED <<core2_session, core2_online>>
    /\ IF valid
       THEN Core2UploadToAI(t, [core2_calls[t] EXCEPT !.attempt = 1])
       ELSE /\ Core2Fail(t, core2_calls[t], QualityError, NoBody, NoBody)
            /\ UNCHANGED core2_abortControllers

\* The fetch of call t resolves: the timer is cleared, response.ok is tested.
Core2_FetchResponse(t, status) ==
    /\ Core2Ready
    /\ core2_calls[t].pc = "fetch"
    /\ Core2Frame
    /\ core2_calls' = [core2_calls EXCEPT ![t] =
           [@ EXCEPT !.pc = IF Ok(status) THEN "json" ELSE "errjson",
                     !.timer = FALSE, !.status = status]]
    /\ core2_ended' = Core2NoEnded
    /\ UNCHANGED <<core2_isProcessing, core2_session, core2_online, core2_abortControllers>>

\* The fetch of call t rejects, the network failed.
Core2_FetchNetworkError(t) ==
    /\ Core2Ready
    /\ core2_calls[t].pc = "fetch"
    /\ Core2Frame
    /\ core2_abortControllers' = core2_abortControllers \ {t}
    /\ Core2AttemptFailed(t, [core2_calls[t] EXCEPT !.timer = FALSE], TypeErrorOutcome)
    /\ UNCHANGED <<core2_session, core2_online>>

\* The timer of call t's attempt fires: its own controller is aborted.
Core2_FetchTimeout(t) ==
    /\ Core2Ready
    /\ core2_calls[t].timer
    /\ Core2Frame
    /\ core2_calls' = [core2_calls EXCEPT ![t] = [@ EXCEPT !.pc = "rejected", !.timer = FALSE]]
    /\ core2_ended' = Core2NoEnded
    /\ UNCHANGED <<core2_isProcessing, core2_session, core2_online, core2_abortControllers>>

\* The abort reaches call t: the fetch or the body read rejects; the read of
\* an error body swallows it (`.catch(() => ({}))`).
Core2_FetchAborted(t) ==
    /\ core2_calls[t].pc = "rejected"
    /\ Core2Frame
    /\ core2_abortControllers' = core2_abortControllers \ {t}
    /\ Core2AttemptFailed(t, [core2_calls[t] EXCEPT !.timer = FALSE],
                          IF core2_calls[t].status # 0 /\ ~Ok(core2_calls[t].status)
                          THEN ApiError(core2_calls[t].status)
                          ELSE AbortErrorOutcome)
    /\ UNCHANGED <<core2_session, core2_online>>

\* The body of a non-ok response was read: uploadToAI throws the API error.
Core2_ErrorBodyDone(t) ==
    /\ Core2Ready
    /\ core2_calls[t].pc = "errjson"
    /\ Core2Frame
    /\ core2_abortControllers' = core2_abortControllers \ {t}
    /\ Core2AttemptFailed(t, core2_calls[t], ApiError(core2_calls[t].status))
    /\ UNCHANGED <<core2_session, core2_online>>

\* response.json() settles: uploadToAI validates and returns, handleCapture
\* stores and reveals the result.
Core2_JsonDone(t, body) ==
    /\ Core2Ready
    /\ core2_calls[t].pc = "json"
    /\ Core2Frame
    /\ core2_abortControllers' = core2_abortControllers \ {t}
    /\ UNCHANGED <<core2_session, core2_online>>
    /\ LET c == core2_calls[t] IN
       IF body.kind = "malformed"
       THEN Core2AttemptFailed(t, c, SyntaxErrorOutcome)
       ELSE IF ~Core2ValidateAIResponse(body)
            THEN Core2AttemptFailed(t, c, InvalidAIResponse)
            ELSE IF Core2RevealThrows(body)
                 THEN Core2Fail(t, c, NotAFunction, body, body)
                 ELSE /\ core2_isProcessing' = FALSE
                      /\ core2_calls' = [core2_calls EXCEPT ![t] = Core2IdleCall]
                      /\ core2_ended' = [result |-> "success", attempt |-> c.attempt,
                                         error |-> NoOutcome,
                                         notes |-> Append(c.notes, "Analysis Complete"),
                                         body |-> body, presented |-> body]

\* The retry delay is over: uploadToAIWithRetry(blob, scanId, attempt + 1).
Core2_SleepDone(t) ==
    /\ Core2Ready
    /\ core2_calls[t].pc = "sleep"
    /\ Core2Frame
    /\ Core2UploadToAI(t, [core2_calls[t] EXCEPT !.attempt = @ + 1])
    /\ UNCHANGED <<core2_session, core2_online>>

Core2_Online ==
    /\ Core2Ready
    /\ ~core2_online
    /\ Core2Frame
    /\ core2_online' = TRUE
    /\ core2_ended' = [Core2NoEnded EXCEPT !.result = "online", !.notes = <<"Back Online">>]
    /\ UNCHANGED <<core2_isProcessing, core2_session, core2_abortControllers, core2_calls>>

Core2_Offline ==
    /\ Core2Ready
    /\ core2_online
    /\ Core2Frame
    /\ core2_online' = FALSE
    /\ core2_ended' = [Core2NoEnded EXCEPT !.result = "offline", !.notes = <<"Offline Mode">>]
    /\ UNCHANGED <<core2_isProcessing, core2_session, core2_abortControllers, core2_calls>>

\* The page after `new MedAICore()`.
Core2Init ==
    /\ core2_isProcessing = FALSE
    /\ core2_session \in {"none", "valid", "expired"}
    /\ core2_online = TRUE
    /\ core2_abortControllers = {}
    /\ core2_calls = [t \in Core2Slots |-> Core2IdleCall]
    /\ core2_ended = Core2NoEnded

Core2Bodies == SomeBodies \cup {PlainBody("null"), [ValidBody EXCEPT !.findings = "string"]}

Core2Next ==
    \/ Core2_HandleCapture
    \/ \E t \in Core2Slots, b \in BOOLEAN : Core2_RefreshDone(t, b)
    \/ \E t \in Core2Slots, b \in BOOLEAN : Core2_PhotoReady(t, b)
    \/ \E t \in Core2Slots, b \in BOOLEAN : Core2_QualityDone(t, b)
    \/ \E t \in Core2Slots, s \in SomeStatuses : Core2_FetchResponse(t, s)
    \/ \E t \in Core2Slots : Core2_FetchNetworkError(t)
    \/ \E t \in Core2Slots : Core2_FetchTimeout(t)
    \/ \E t \in Core2Slots : Core2_FetchAborted(t)
    \/ \E t \in Core2Slots : Core2_ErrorBodyDone(t)
    \/ \E t \in Core2Slots, b \in Core2Bodies : Core2_JsonDone(t, b)
    \/ \E t \in Core2Slots : Core2_SleepDone(t)
    \/ Core2_Online
    \/ Core2_Offline

(***************************************************************************)
(* dash.js, "MedAI Authentication Module": AuthState, API, window.MedAI    *)
(***************************************************************************)
AUTH_TOKEN_KEY == "medai_token"
AUTH_USER_KEY == "medai_user"
AUTH_REMEMBER_KEY == "medai_remember"
AUTH_ROUTE_LOGIN == "/login.html"

AuthSlots == 1..MaxCalls
AuthTokens == {"tokA", "tokB"}

\* The value of `result.user` that the server sends with a token.
AuthUserOf(tok) == IF tok = "tokA" THEN "userA" ELSE "userB"

\* JSON.stringify(value) as setItem stores it, and JSON.parse of a stored string.
JSONStringify(u) ==
    CASE u = "userA" -> "{userA}"
      [] u = "userB" -> "{userB}"
      [] u = NoUser  -> "'null'"
      [] OTHER       -> "'undefined'"
JSONParseThrows(s) == s \notin {"{userA}", "{userB}", "'null'"}
JSONParse(s) ==
    CASE s = "{userA}" -> "userA"
      [] s = "{userB}" -> "userB"
      [] OTHER         -> NoUser
\* String(value), the conversion setItem applies to a token or a boolean.
ToStorageString(v) == IF v = NoToken THEN "'null'" ELSE v
BooleanString(b) == IF b THEN "true" ELSE "false"
\* The token a stored string is when it is read back into AuthState.token.
FromStorage(s) == IF s = StorageNull THEN NoToken ELSE s

EmptyStorage == [token |-> StorageNull, user |-> StorageNull, remember |-> StorageNull]

AuthIdleCall == [pc |-> "idle", op |-> "none", status |-> 0, remember |-> FALSE]
AuthNoEnded ==
    [op |-> "none", before |-> NoToken, events |-> <<>>, status |-> 0,
     cleared |-> FALSE, redirected |-> FALSE]
NoSave == [token |-> NoToken, user |-> NoUser]

AuthFrame == UNCHANGED <<v4vars, dashvars, corevars, core2vars, authappvars, engvars, confvars, swvars, camvars, torchvars>>

AuthHasFreeSlot == \E t \in AuthSlots : auth_calls[t].pc = "idle"
AuthFreeSlot == CHOOSE t \in AuthSlots :
                    auth_calls[t].pc = "idle" /\ \A u \in AuthSlots : u < t => auth_calls[u].pc # "idle"

\* window.MedAI.getToken()
AuthGetToken == auth_token

\* A clear() that removes the keys from localStorage only.
AuthClearLocalOnly ==
    /\ auth_localStorage' = EmptyStorage
    /\ auth_sessionStorage' = auth_sessionStorage
    /\ auth_currentUser' = NoUser
    /\ auth_token' = NoToken
    /\ auth_isAuthenticated' = FALSE
    /\ auth_lastSave' = NoSave

\* AuthState.clear(): both storages, the fields, and the event.
AuthClear ==
    /\ auth_localStorage' = EmptyStorage
    /\ auth_sessionStorage' = [auth_sessionStorage EXCEPT !.token = StorageNull, !.user = StorageNull]
    /\ auth_currentUser' = NoUser
    /\ auth_token' = NoToken
    /\ auth_isAuthenticated' = FALSE
    /\ auth_lastSave' = NoSave

\* AuthState.loadFromStorage() where localStorage is `local`, the fields of
\* AuthState are `user` and `isAuth`, `calls` are the requests in progress and
\* `save` is the most recent save of the origin; `op` names the caller.  A
\* stored session starts validateToken().
AuthLoadFromStorage(op, local, user, isAuth, calls, save) ==
    LET storage == IF local.remember = "true" THEN local ELSE auth_sessionStorage
        before == auth_token
    IN  IF storage.token # StorageNull /\ storage.user # StorageNull
        THEN IF JSONParseThrows(storage.user)
             THEN /\ AuthClear
                  /\ auth_calls' = calls
                  /\ auth_ended' = [AuthNoEnded EXCEPT !.op = op, !.before = before,
                                       !.events = <<FALSE>>, !.cleared = TRUE]
             ELSE /\ auth_token' = FromStorage(storage.token)
                  /\ auth_currentUser' = JSONParse(storage.user)
                  /\ auth_isAuthenticated' = TRUE
                  /\ auth_localStorage' = local
                  /\ auth_calls' = [calls EXCEPT ![CHOOSE t \in AuthSlots : calls[t].pc = "idle"] =
                         [AuthIdleCall EXCEPT !.pc = "fetch", !.op = "validateToken"]]
                  /\ auth_ended' = [AuthNoEnded EXCEPT !.op = op, !.before = before]
                  /\ auth_lastSave' = save
                  /\ UNCHANGED auth_sessionStorage
        ELSE /\ auth_token' = FromStorage(storage.token)
             /\ auth_currentUser' = user
             /\ auth_isAuthenticated' = isAuth
             /\ auth_localStorage' = local
             /\ auth_calls' = calls
             /\ auth_ended' = [AuthNoEnded EXCEPT !.op = op, !.before = before]
             /\ auth_lastSave' = save
             /\ UNCHANGED auth_sessionStorage

\* AuthState.save(remember) writes the three keys to one storage only.
AuthSaveOneStorage(tok, user, remember) ==
    LET written == [token |-> ToStorageString(tok), user |-> JSONStringify(user),
                    remember |-> BooleanString(remember)]
    IN  /\ auth_localStorage' = IF remember THEN written ELSE auth_localStorage
        /\ auth_sessionStorage' = IF remember THEN auth_sessionStorage ELSE written

\* AuthState.save(remember), after the caller has set token and currentUser.
AuthSave(tok, user, remember) ==
    /\ AuthSaveOneStorage(tok, user, remember)
    /\ auth_lastSave' = [token |-> tok, user |-> user]

\* DOMContentLoaded: the page is loaded (again) in this tab; AuthState.init().
Auth_DOMContentLoaded ==
    /\ AuthFrame
    /\ auth_location' = "current"
    /\ AuthLoadFromStorage("init", auth_localStorage, NoUser, FALSE,
                           [t \in AuthSlots |-> AuthIdleCall], auth_lastSave)

\* Another tab of the origin saved a remembered session: localStorage changes
\* and the storage event of this tab runs loadFromStorage().
Auth_StorageEventSave(tok) ==
    /\ AuthHasFreeSlot
    /\ AuthFrame
    /\ UNCHANGED auth_location
    /\ AuthLoadFromStorage("storage",
           [token |-> ToStorageString(tok), user |-> JSONStringify(AuthUserOf(tok)),
            remember |-> "true"],
           auth_currentUser, auth_isAuthenticated, auth_calls,
           [token |-> tok, user |-> AuthUserOf(tok)])

\* Another tab cleared the session (logout): the keys leave localStorage.
Auth_StorageEventClear ==
    /\ AuthHasFreeSlot
    /\ auth_localStorage.token # StorageNull
    /\ AuthFrame
    /\ UNCHANGED auth_location
    /\ AuthLoadFromStorage("storage", EmptyStorage,
                           auth_currentUser, auth_isAuthenticated, auth_calls, NoSave)

\* A validateToken() that returns false for a non-ok status without clear().
Auth_ValidateResponseNoClear(t, status) ==
    /\ auth_calls[t].pc = "fetch" /\ auth_calls[t].op = "validateToken"
    /\ AuthFrame
    /\ auth_calls' = [auth_calls EXCEPT ![t] =
           IF Ok(status) THEN [@ EXCEPT !.pc = "json", !.status = status] ELSE AuthIdleCall]
    /\ auth_ended' = IF Ok(status) THEN AuthNoEnded
                     ELSE [AuthNoEnded EXCEPT !.op = "validateToken", !.before = auth_token,
                                              !.status = status]
    /\ UNCHANGED <<auth_token, auth_currentUser, auth_isAuthenticated, auth_localStorage,
                   auth_sessionStorage, auth_lastSave, auth_location>>

\* validateToken(): the fetch of /auth/me settles with a status.
Auth_ValidateResponse(t, status) ==
    /\ auth_calls[t].pc = "fetch" /\ auth_calls[t].op = "validateToken"
    /\ AuthFrame
    /\ UNCHANGED auth_location
    /\ IF Ok(status)
       THEN /\ auth_calls' = [auth_calls EXCEPT ![t] = [@ EXCEPT !.pc = "json", !.status = status]]
            /\ auth_ended' = AuthNoEnded
            /\ UNCHANGED <<auth_token, auth_currentUser, auth_isAuthenticated,
                           auth_localStorage, auth_sessionStorage, auth_lastSave>>
       ELSE /\ AuthClear
            /\ auth_calls' = [auth_calls EXCEPT ![t] = AuthIdleCall]
            /\ auth_ended' = [AuthNoEnded EXCEPT !.op = "validateToken", !.before = auth_token,
                                 !.events = <<FALSE>>, !.status = status, !.cleared = TRUE]

\* validateToken(): the fetch rejects; the catch block returns false.
Auth_ValidateNetworkError(t) ==
    /\ auth_calls[t].pc = "fetch" /\ auth_calls[t].op = "validateToken"
    /\ AuthFrame
    /\ auth_calls' = [auth_calls EXCEPT ![t] = AuthIdleCall]
    /\ auth_ended' = [AuthNoEnded EXCEPT !.op = "validateToken", !.before = auth_token]
    /\ UNCHANGED <<auth_token, auth_currentUser, auth_isAuthenticated, auth_localStorage,
                   auth_sessionStorage, auth_lastSave, auth_location>>

\* validateToken(): the body is read; currentUser becomes data.user, or the
\* catch block returns false for a body that does not parse.
Auth_ValidateJsonDone(t, parses, tok) ==
    /\ auth_calls[t].pc = "json" /\ auth_calls[t].op = "validateToken"
    /\ AuthFrame
    /\ auth_currentUser' = IF parses THEN AuthUserOf(tok) ELSE auth_currentUser
    /\ auth_calls' = [auth_calls EXCEPT ![t] = AuthIdleCall]
    /\ auth_ended' = [AuthNoEnded EXCEPT !.op = "validateToken", !.before = auth_token,
                         !.status = auth_calls[t].status]
    /\ UNCHANGED <<auth_token, auth_isAuthenticated, auth_localStorage, auth_sessionStorage,
                   auth_lastSave, auth_location>>

\* The login form is submitted with valid inputs: API.auth.login() sends the
\* request through API.request.
Auth_SubmitLogin(remember) ==
    /\ AuthHasFreeSlot
    /\ AuthFrame
    /\ auth_calls' = [auth_calls EXCEPT ![AuthFreeSlot] =
           [AuthIdleCall EXCEPT !.pc = "fetch", !.op = "login", !.remember = remember]]
    /\ auth_ended' = AuthNoEnded
    /\ UNCHANGED <<auth_token, auth_currentUser, auth_isAuthenticated, auth_localStorage,
                   auth_sessionStorage, auth_lastSave, auth_location>>

\* Any other call of window.MedAI.api.request(endpoint).
Auth_Request ==
    /\ AuthHasFreeSlot
    /\ AuthFrame
    /\ auth_calls' = [auth_calls EXCEPT ![AuthFreeSlot] =
           [AuthIdleCall EXCEPT !.pc = "fetch", !.op = "request"]]
    /\ auth_ended' = AuthNoEnded
    /\ UNCHANGED <<auth_token, auth_currentUser, auth_isAuthenticated, auth_localStorage,
                   auth_sessionStorage, auth_lastSave, auth_location>>

\* API.request: the fetch resolves and the body is being read.
Auth_FetchResponse(t, status) ==
    /\ auth_calls[t].pc = "fetch" /\ auth_calls[t].op \in {"login", "request"}
    /\ AuthFrame
    /\ auth_calls' = [auth_calls EXCEPT ![t] = [@ EXCEPT !.pc = "json", !.status = status]]
    /\ auth_ended' = AuthNoEnded
    /\ UNCHANGED <<auth_token, auth_currentUser, auth_isAuthenticated, auth_localStorage,
                   auth_sessionStorage, auth_lastSave, auth_location>>

\* The condition of the catch block of API.request under which it calls
\* AuthState.clear() and redirectToLogin().
AuthRejected(error) == error.kind = "status" /\ error.status = 401

\* API.request after its try block threw `error`: the catch block, then the
\* rejection in the caller (which saves nothing).
AuthRequestThrows(t, error) ==
    /\ auth_calls' = [auth_calls EXCEPT ![t] = AuthIdleCall]
    /\ IF AuthRejected(error)
       THEN /\ AuthClear
            /\ auth_location' = AUTH_ROUTE_LOGIN
            /\ auth_ended' = [AuthNoEnded EXCEPT !.op = "request", !.before = auth_token,
                                 !.events = <<FALSE>>, !.status = error.status,
                                 !.cleared = TRUE, !.redirected = TRUE]
       ELSE /\ auth_ended' = [AuthNoEnded EXCEPT !.op = "request", !.before = auth_token,
                                 !.status = error.status]
            /\ UNCHANGED <<auth_token, auth_currentUser, auth_isAuthenticated, auth_localStorage,
                           auth_sessionStorage, auth_lastSave, auth_location>>

\* API.request: the fetch rejects (network failure).
Auth_FetchNetworkError(t) ==
    /\ auth_calls[t].pc = "fetch" /\ auth_calls[t].op \in {"login", "request"}
    /\ AuthFrame
    /\ AuthRequestThrows(t, TypeErrorOutcome)

\* API.request: response.json() settles.  A body that does not parse throws a
\* SyntaxError whatever the status; a login that resolves is saved.
Auth_JsonDone(t, parses, tok) ==
    /\ auth_calls[t].pc = "json" /\ auth_calls[t].op \in {"login", "request"}
    /\ AuthFrame
    /\ LET c == auth_calls[t] IN
       IF ~parses
       THEN AuthRequestThrows(t, SyntaxErrorOutcome)
       ELSE IF ~Ok(c.status)
            THEN AuthRequestThrows(t, StatusOutcome(c.status))
            ELSE /\ auth_calls' = [auth_calls EXCEPT ![t] = AuthIdleCall]
                 /\ UNCHANGED <<auth_isAuthenticated, auth_location>>
                 /\ IF c.op = "login"
                    THEN /\ auth_token' = tok
                         /\ auth_currentUser' = AuthUserOf(tok)
                         /\ AuthSave(tok, AuthUserOf(tok), c.remember)
                         /\ auth_ended' = [AuthNoEnded EXCEPT !.op = "save", !.before = auth_token,
                                              !.events = <<TRUE>>, !.status = c.status]
                    ELSE /\ auth_ended' = [AuthNoEnded EXCEPT !.op = "request",
                                              !.before = auth_token, !.status = c.status]
                         /\ UNCHANGED <<auth_token, auth_currentUser, auth_localStorage,
                                        auth_sessionStorage, auth_lastSave>>

\* window.MedAI.logout().
Auth_Logout ==
    /\ AuthFrame
    /\ AuthClear
    /\ auth_location' = AUTH_ROUTE_LOGIN
    /\ auth_ended' = [AuthNoEnded EXCEPT !.op = "clear", !.before = auth_token,
                         !.events = <<FALSE>>, !.cleared = TRUE, !.redirected = TRUE]
    /\ UNCHANGED auth_calls

\* A new tab (empty sessionStorage) after DOMContentLoaded has run
\* AuthState.init(): localStorage was empty, or held a remembered session that
\* loadFromStorage has read and validateToken is checking.
AuthRemembered ==
    [token |-> "tokA", user |-> JSONStringify("userA"), remember |-> "true"]
AuthInit ==
    /\ auth_localStorage \in {EmptyStorage, AuthRemembered}
    /\ auth_sessionStorage = EmptyStorage
    /\ auth_token = FromStorage(auth_localStorage.token)
    /\ auth_currentUser = IF auth_localStorage = EmptyStorage THEN NoUser
                          ELSE JSONParse(auth_localStorage.user)
    /\ auth_isAuthenticated = (auth_localStorage # EmptyStorage)
    /\ auth_location = "current"
    /\ auth_lastSave = IF auth_localStorage = EmptyStorage THEN NoSave
                       ELSE [token |-> "tokA", user |-> "userA"]
    /\ auth_calls = [t \in AuthSlots |->
           IF t = 1 /\ auth_localStorage # EmptyStorage
           THEN [AuthIdleCall EXCEPT !.pc = "fetch", !.op = "validateToken"]
           ELSE AuthIdleCall]
    /\ auth_ended = AuthNoEnded

AuthStatuses == {200, 401, 403, 500}

AuthNext ==
    \/ Auth_DOMContentLoaded
    \/ \E tok \in AuthTokens : Auth_StorageEventSave(tok)
    \/ Auth_StorageEventClear
    \/ \E t \in AuthSlots, s \in AuthStatuses : Auth_ValidateResponse(t, s)
    \/ \E t \in AuthSlots : Auth_ValidateNetworkError(t)
    \/ \E t \in AuthSlots, b \in BOOLEAN, tok \in AuthTokens : Auth_ValidateJsonDone(t, b, tok)
    \/ \E b \in BOOLEAN : Auth_SubmitLogin(b)
    \/ Auth_Request
    \/ \E t \in AuthSlots, s \in AuthStatuses : Auth_FetchResponse(t, s)
    \/ \E t \in AuthSlots : Auth_FetchNetworkError(t)
    \/ \E t \in AuthSlots, b \in BOOLEAN, tok \in AuthTokens : Auth_JsonDone(t, b, tok)
    \/ Auth_Logout

(***************************************************************************)
(* auth.js, AuthApp "Authentication Engine v2.0.0": postData               *)
(***************************************************************************)
AUTHAPP_REQUEST_TIMEOUT == 25000
AUTHAPP_REDIRECT_PATH == "dash.html"

AuthAppSlots == 1..MaxCalls
AuthAppIdleCall == [pc |-> "idle", endpoint |-> "none", status |-> 0, timer |-> FALSE]
AuthAppNoEnded == [endpoint |-> "none", result |-> "none", status |-> 0, token |-> NoToken]

AuthAppFrame ==
    UNCHANGED <<dashvars, corevars, core2vars, authvars, engvars, confvars, swvars, camvars,
                torchvars,
                v4_isProcessing, v4_isOnline, v4_lastRequestTime, v4_now, v4_calls, v4_ended>>

AuthAppHasFreeSlot == \E t \in AuthAppSlots : authapp_calls[t].pc = "idle"
AuthAppFreeSlot == CHOOSE t \in AuthAppSlots :
                      authapp_calls[t].pc = "idle"
                      /\ \A u \in AuthAppSlots : u < t => authapp_calls[u].pc # "idle"

\* The decoded body of an authentication response: `result`.
AuthAppResults ==
    [kind : {"object"}, token : {NoToken} \cup AuthTokens, user : {"undefined", "userA", "userB"}]
      \cup {[kind |-> k, token |-> NoToken, user |-> "undefined"] : k \in {"null", "malformed"}}

\* postData writes the session when this holds: `if (result.token)`, which is
\* reached for an ok response with an object body only.
AuthAppStoresSession(status, result) ==
    Ok(status) /\ result.kind = "object" /\ result.token # NoToken

\* postData threw: the catch of the submit handler shows err.message.
AuthAppThrows(t, result, status) ==
    /\ authapp_calls' = [authapp_calls EXCEPT ![t] = AuthAppIdleCall]
    /\ authapp_ended' = [AuthAppNoEnded EXCEPT !.endpoint = authapp_calls[t].endpoint,
                            !.result = result, !.status = status]
    /\ UNCHANGED <<v4_medai_token, v4_medai_user, v4_location, authapp_redirect>>

\* A form is submitted (login, register) or Google calls back: postData up to
\* its await.  A register form with a short password sends nothing.
AuthApp_Submit(endpoint, shortPassword) ==
    /\ v4_location = V4_REDIRECT_LOGIN
    /\ AuthAppHasFreeSlot
    /\ AuthAppFrame
    /\ UNCHANGED <<v4_medai_token, v4_medai_user, v4_location, authapp_redirect>>
    /\ IF endpoint = "register" /\ shortPassword
       THEN /\ authapp_ended' = [AuthAppNoEnded EXCEPT !.endpoint = endpoint,
                                    !.result = "shortPassword"]
            /\ UNCHANGED authapp_calls
       ELSE /\ authapp_calls' = [authapp_calls EXCEPT ![AuthAppFreeSlot] =
                   [AuthAppIdleCall EXCEPT !.pc = "fetch", !.endpoint = endpoint, !.timer = TRUE]]
            /\ authapp_ended' = AuthAppNoEnded

\* The fetch resolves: the timer is cleared and the body is read.
AuthApp_FetchResponse(t, status) ==
    /\ authapp_calls[t].pc = "fetch"
    /\ AuthAppFrame
    /\ authapp_calls' = [authapp_calls EXCEPT ![t] =
           [@ EXCEPT !.pc = "json", !.status = status, !.timer = FALSE]]
    /\ authapp_ended' = AuthAppNoEnded
    /\ UNCHANGED <<v4_medai_token, v4_medai_user, v4_location, authapp_redirect>>

\* The fetch rejects, the network failed: postData rethrows.
AuthApp_FetchNetworkError(t) ==
    /\ authapp_calls[t].pc = "fetch"
    /\ AuthAppFrame
    /\ AuthAppThrows(t, "networkError", 0)

\* The timer fires during the fetch: controller.abort(), the fetch rejects
\* with AbortError and postData throws the connection timeout error.
AuthApp_Timeout(t) ==
    /\ authapp_calls[t].pc = "fetch" /\ authapp_calls[t].timer
    /\ AuthAppFrame
    /\ AuthAppThrows(t, "timeout", 0)

\* A postData that stores the session before it tests response.ok.
AuthApp_JsonDoneStoresFirst(t, result) ==
    /\ authapp_calls[t].pc = "json"
    /\ AuthAppFrame
    /\ LET c == authapp_calls[t]
           ok == Ok(c.status) /\ result.kind = "object"
       IN  /\ authapp_calls' = [authapp_calls EXCEPT ![t] = AuthAppIdleCall]
           /\ authapp_redirect' = (authapp_redirect \/ ok)
           /\ authapp_ended' = [endpoint |-> c.endpoint,
                                result |-> IF ok THEN "ok" ELSE "serverError",
                                status |-> c.status, token |-> result.token]
           /\ UNCHANGED v4_location
           /\ IF result.kind = "object" /\ result.token # NoToken
              THEN /\ v4_medai_token' = result.token
                   /\ v4_medai_user' = JSONStringify(result.user)
              ELSE UNCHANGED <<v4_medai_token, v4_medai_user>>

\* response.json() settles with `result`: the rest of postData and of the
\* submit handler.
AuthApp_JsonDone(t, result) ==
    /\ authapp_calls[t].pc = "json"
    /\ AuthAppFrame
    /\ LET c == authapp_calls[t] IN
       IF result.kind = "malformed"
       THEN AuthAppThrows(t, "syntaxError", c.status)
       ELSE IF ~Ok(c.status)
            THEN AuthAppThrows(t, IF result.kind = "null" THEN "typeError" ELSE "serverError",
                               c.status)
            ELSE IF result.kind = "null"
                 THEN AuthAppThrows(t, "typeError", c.status)
                 ELSE /\ authapp_calls' = [authapp_calls EXCEPT ![t] = AuthAppIdleCall]
                      /\ authapp_redirect' = TRUE
                      /\ authapp_ended' = [endpoint |-> c.endpoint, result |-> "ok",
                                           status |-> c.status, token |-> result.token]
                      /\ UNCHANGED v4_location
                      /\ IF AuthAppStoresSession(c.status, result)
                         THEN /\ v4_medai_token' = result.token
                              /\ v4_medai_user' = JSONStringify(result.user)
                         ELSE UNCHANGED <<v4_medai_token, v4_medai_user>>

\* The redirect timer of a successful submit fires.
AuthApp_Redirect ==
    /\ authapp_redirect
    /\ AuthAppFrame
    /\ v4_location' = AUTHAPP_REDIRECT_PATH
    /\ authapp_redirect' = FALSE
    /\ authapp_calls' = [t \in AuthAppSlots |-> AuthAppIdleCall]
    /\ authapp_ended' = AuthAppNoEnded
    /\ UNCHANGED <<v4_medai_token, v4_medai_user>>

\* The dashboard sends the user back to the login page (logout).
AuthApp_BackToLogin ==
    /\ v4_location = AUTHAPP_REDIRECT_PATH
    /\ AuthAppFrame
    /\ v4_location' = V4_REDIRECT_LOGIN
    /\ v4_medai_token' = NoToken
    /\ v4_medai_user' = NoUser
    /\ authapp_ended' = AuthAppNoEnded
    /\ UNCHANGED <<authapp_calls, authapp_redirect>>

AuthAppInit ==
    /\ authapp_calls = [t \in AuthAppSlots |-> AuthAppIdleCall]
    /\ authapp_redirect = FALSE
    /\ authapp_ended = AuthAppNoEnded

AuthAppNext ==
    \/ \E e \in {"login", "register", "google"}, b \in BOOLEAN : AuthApp_Submit(e, b)
    \/ \E t \in AuthAppSlots, s \in AuthStatuses : AuthApp_FetchResponse(t, s)
    \/ \E t \in AuthAppSlots : AuthApp_FetchNetworkError(t)
    \/ \E t \in AuthAppSlots : AuthApp_Timeout(t)
    \/ \E t \in AuthAppSlots, r \in AuthAppResults : AuthApp_JsonDone(t, r)
    \/ AuthApp_Redirect
    \/ AuthApp_BackToLogin

(***************************************************************************)
(* part_002, second program: MedAI Enterprise Engine v2.2.                 *)
(* Utils.backoffDelay, Utils.clamp, HttpClient.post and the capture        *)
(* handler of its MedAIApp.  handleCapture is guarded by isProcessing, so  *)
(* one coroutine is in progress at a time; its position is pc:             *)
(*   "blob"   awaiting canvas.toBlob in camera.capture()                   *)
(*   "fetch"  awaiting fetch() in HttpClient.post, attempt as recorded     *)
(*   "sleep"  awaiting Utils.sleep(Utils.backoffDelay(attempt))            *)
(*   "json"   awaiting response.json()                                     *)
(***************************************************************************)
ENG_RETRY_ATTEMPTS == 3
ENG_RETRY_BASE_DELAY == 1000

\* Math.random() * 300: some value of [0, 300), here in whole milliseconds.
Jitters == {0, 150, 299}

\* A numeric JSON value, or a property that is missing.
Num(n) == [type |-> "number", num |-> n]
Undefined == [type |-> "undefined", num |-> 0]

MathMax(a, b) == IF a >= b THEN a ELSE b
MathMin(a, b) == IF a <= b THEN a ELSE b

\* Utils.clamp = (num, min, max) => Math.min(Math.max(num, min), max)
EngClamp(num, min, max) == MathMin(MathMax(num, min), max)

\* Utils.backoffDelay(attempt), with the value Math.random() * 300 took.
EngBackoffDelayLinear(attempt, jitter) ==
    (ENG_RETRY_BASE_DELAY * (attempt + 1)) + jitter
EngBackoffDelay(attempt, jitter) ==
    (ENG_RETRY_BASE_DELAY * 2^attempt) + jitter

\* The template literal `${score}%`.
PercentText(score) == ToString(score) \o "%"

\* displayResults(data): the text written to confidenceText.  data?.confidence ?? 0.
EngDisplayResults(confidence) ==
    PercentText(EngClamp(IF confidence.type = "undefined" THEN 0 ELSE confidence.num,
                         0, 100))

EngIdleCall == [pc |-> "idle", attempt |-> 0, sent |-> 0, delays |-> <<>>]
EngNoEnded == [result |-> "none", attempts |-> 0, delays |-> <<>>, note |-> "", text |-> ""]

EngFrame ==
    UNCHANGED <<v4vars, dashvars, corevars, core2vars, authvars, authappvars, confvars,
                swvars, camvars, torchvars>>

\* await Utils.sleep(Utils.backoffDelay(attempt)) of HttpClient.post.
EngRetry(jitter) ==
    /\ eng_call' = [eng_call EXCEPT !.pc = "sleep",
                       !.delays = Append(@, EngBackoffDelay(eng_call.attempt, jitter))]
    /\ eng_ended' = EngNoEnded
    /\ UNCHANGED eng_isProcessing

\* post() throws: the catch of handleCapture notifies err.message and its
\* finally calls setLoading(false).  The frames of the earlier attempts have
\* returned: `return this.post(...)` hands the promise of the retry to the
\* caller without awaiting it inside their try blocks.
EngFailCaughtByOuterFrame(note) ==
    IF eng_call.attempt > 0
    THEN /\ eng_call' = [eng_call EXCEPT !.pc = "sleep", !.attempt = @ - 1,
                            !.delays = Append(@, EngBackoffDelay(eng_call.attempt - 1, 0))]
         /\ eng_ended' = EngNoEnded
         /\ UNCHANGED eng_isProcessing
    ELSE /\ eng_ended' = [result |-> "failed", attempts |-> eng_call.sent,
                          delays |-> eng_call.delays, note |-> note, text |-> ""]
         /\ eng_call' = EngIdleCall
         /\ eng_isProcessing' = FALSE
EngFail(note) ==
    /\ eng_ended' = [result |-> "failed", attempts |-> eng_call.sent,
                     delays |-> eng_call.delays, note |-> note, text |-> ""]
    /\ eng_call' = EngIdleCall
    /\ eng_isProcessing' = FALSE

\* The catch clause of HttpClient.post, for an error of the given name.
EngPostCatchRetriesAll(name, note) ==
    IF eng_call.attempt < ENG_RETRY_ATTEMPTS
    THEN \E jitter \in Jitters : EngRetry(jitter)
    ELSE EngFail(note)
EngPostCatch(name, note) ==
    IF eng_call.attempt < ENG_RETRY_ATTEMPTS /\ name \in {"AbortError", "TypeError"}
    THEN \E jitter \in Jitters : EngRetry(jitter)
    ELSE EngFail(note)

\* A click on the capture button: handleCapture() up to its first await that
\* waits for the platform.  camera.capture() throws when video.videoWidth is 0.
Eng_HandleCapture(ready) ==
    /\ ~eng_isProcessing
    /\ IF ready
       THEN /\ eng_isProcessing' = TRUE
            /\ eng_call' = [EngIdleCall EXCEPT !.pc = "blob"]
            /\ eng_ended' = EngNoEnded
       ELSE /\ eng_ended' = [EngNoEnded EXCEPT !.result = "failed",
                                               !.note = "Camera not ready"]
            /\ UNCHANGED <<eng_isProcessing, eng_call>>
    /\ EngFrame

\* canvas.toBlob calls back: HttpClient.post starts attempt 0.
Eng_BlobReady ==
    /\ eng_call.pc = "blob"
    /\ eng_call' = [eng_call EXCEPT !.pc = "fetch", !.sent = @ + 1]
    /\ eng_ended' = EngNoEnded
    /\ UNCHANGED eng_isProcessing
    /\ EngFrame

\* fetch() resolves with a response of the given status.
Eng_FetchResponse(status) ==
    /\ eng_call.pc = "fetch"
    /\ IF Ok(status)
       THEN /\ eng_call' = [eng_call EXCEPT !.pc = "json"]
            /\ eng_ended' = EngNoEnded
            /\ UNCHANGED eng_isProcessing
       ELSE IF status >= 500 /\ eng_call.attempt < ENG_RETRY_ATTEMPTS
       THEN \E jitter \in Jitters : EngRetry(jitter)
       ELSE EngPostCatch("Error", "Server Error")
    /\ EngFrame

\* fetch() rejects with a TypeError: the transport failed.
Eng_FetchNetworkError ==
    /\ eng_call.pc = "fetch"
    /\ EngPostCatch("TypeError", "Failed to fetch")
    /\ EngFrame

\* The timer of the attempt fires while fetch() is pending: controller.abort()
\* rejects it with an AbortError.
Eng_FetchTimeout ==
    /\ eng_call.pc = "fetch"
    /\ EngPostCatch("AbortError", "aborted")
    /\ EngFrame

\* The sleep ends: return this.post(url, body, headers, attempt + 1).
Eng_SleepDone ==
    /\ eng_call.pc = "sleep"
    /\ eng_call' = [eng_call EXCEPT !.pc = "fetch", !.attempt = @ + 1, !.sent = @ + 1]
    /\ eng_ended' = EngNoEnded
    /\ UNCHANGED eng_isProcessing
    /\ EngFrame

\* response.json() settles: with the decoded body, which displayResults shows,
\* or with an error of the given name (the attempt's timer is still pending
\* while the body is read).
Eng_JsonDone(outcome, confidence) ==
    /\ eng_call.pc = "json"
    /\ IF outcome = "ok"
       THEN /\ eng_ended' = [result |-> "shown", attempts |-> eng_call.sent,
                             delays |-> eng_call.delays, note |-> "",
                             text |-> EngDisplayResults(confidence)]
            /\ eng_call' = EngIdleCall
            /\ eng_isProcessing' = FALSE
       ELSE EngPostCatch(outcome, "body")
    /\ EngFrame

EngInit ==
    /\ eng_isProcessing = FALSE
    /\ eng_call = EngIdleCall
    /\ eng_ended = EngNoEnded

EngStatuses == {200, 401, 404, 500, 503}
EngConfidences == {Undefined, Num(-5), Num(50), Num(120)}

EngNext ==
    \/ \E ready \in BOOLEAN : Eng_HandleCapture(ready)
    \/ Eng_BlobReady
    \/ \E s \in EngStatuses : Eng_FetchResponse(s)
    \/ Eng_FetchNetworkError
    \/ Eng_FetchTimeout
    \/ Eng_SleepDone
    \/ \E o \in {"ok", "SyntaxError", "TypeError", "AbortError"},
          c \in EngConfidences : Eng_JsonDone(o, c)

(***************************************************************************)
(* The confidence shown: updateConfidence of dash.js and displayResults of *)
(* the Enterprise Engine, applied to the confidence of a response.         *)
(***************************************************************************)
\* updateConfidence(score): Math.min(100, Math.max(0, score)), then `${validScore}%`.
DashUpdateConfidenceNoFloor(score) == PercentText(MathMin(100, score))
DashUpdateConfidence(score) == PercentText(MathMin(100, MathMax(0, score)))

\* displayResults: updateConfidence(typeof data.confidence === 'number' ? data.confidence : 0)
DashDisplayConfidence(confidence) ==
    DashUpdateConfidence(IF confidence.type = "number" THEN confidence.num ELSE 0)

Confidences ==
    {Undefined} \cup {Num(n) : n \in (0 - ConfidenceSpan)..(100 + ConfidenceSpan)}

ConfNotShown == [by |-> "none", confidence |-> Undefined, text |-> ""]

ConfFrame ==
    UNCHANGED <<v4vars, dashvars, corevars, core2vars, authvars, authappvars, engvars,
                swvars, camvars, torchvars>>

\* dash.js shows a validated response with the given confidence.
Conf_DashShows(confidence) ==
    /\ conf_shown' = [by |-> "dash", confidence |-> confidence,
                      text |-> DashDisplayConfidence(confidence)]
    /\ ConfFrame

\* The Enterprise Engine shows a response with the given confidence.
Conf_EngShows(confidence) ==
    /\ conf_shown' = [by |-> "eng", confidence |-> confidence,
                      text |-> EngDisplayResults(confidence)]
    /\ ConfFrame

ConfInit == conf_shown = ConfNotShown

ConfNext ==
    \/ \E c \in Confidences : Conf_DashShows(c)
    \/ \E c \in Confidences : Conf_EngShows(c)

(***************************************************************************)
(* part_000: the service worker.                                           *)
(* A request is its method, its URL and whether its Accept header contains *)
(* text/html.  The cache medai-cache-v1 maps a URL to the way its entry    *)
(* was stored: by cache.addAll at install, or by cache.put for a request   *)
(* of some method.                                                         *)
(***************************************************************************)
OFFLINE_URL == "offline.html"
ASSETS_TO_CACHE ==
    {"index.html", "login.html", "reg.html", "dashboard.html", "auth.css", "dash.css",
     "auth.js", "dash.js", "manifest.json",
     "https://fonts.googleapis.com/css2?family=Space+Grotesk:wght@300;700&display=swap",
     "https://cdnjs.cloudflare.com/ajax/libs/font-awesome/6.0.0/css/all.min.css",
     "https://encrypted-tbn0.gstatic.com/images?q=tbn:ANd9GcQdQRHGEmi5WbR1z9s2efKq33kxiId0ir2_dg&s"}

\* The URLs requested by the pages: a precached page, the offline page, a
\* page of the same folder that is not precached, and the analysis endpoint
\* of another origin.
SwAnalyzeUrl == "https://ai-p17b.onrender.com/diagnostics/process"
SwRequestUrls == {"dashboard.html", OFFLINE_URL, "report.html", SwAnalyzeUrl}
SwUrls == ASSETS_TO_CACHE \cup SwRequestUrls

\* request.url.startsWith(self.location.origin)
SwSameOrigin(url) == url \in {"index.html", "login.html", "reg.html", "dashboard.html",
                             "auth.css", "dash.css", "auth.js", "dash.js",
                             "manifest.json", OFFLINE_URL, "report.html"}

SwRequests == [method : {"GET", "POST"}, url : SwRequestUrls, html : BOOLEAN]
SwNoRequest == [method |-> "none", url |-> "", html |-> FALSE]
SwNoEnded == [request |-> SwNoRequest, answer |-> "none"]

SwFrame ==
    UNCHANGED <<v4vars, dashvars, corevars, core2vars, authvars, authappvars, engvars,
                confvars, camvars, torchvars>>

\* The install event: cache.addAll(ASSETS_TO_CACHE) stores every asset or,
\* when one of them cannot be fetched, nothing, and the worker is discarded.
Sw_Install(ok) ==
    /\ sw_state = "parsed"
    /\ IF ok
       THEN /\ sw_cache' = [u \in SwUrls |->
                              IF u \in ASSETS_TO_CACHE THEN "install" ELSE sw_cache[u]]
            /\ sw_state' = "installed"
       ELSE /\ sw_state' = "redundant"
            /\ UNCHANGED sw_cache
    /\ sw_ended' = SwNoEnded
    /\ UNCHANGED sw_pending
    /\ SwFrame

\* The activate event: caches other than medai-cache-v1 are deleted.
Sw_Activate ==
    /\ sw_state = "installed"
    /\ sw_state' = "activated"
    /\ sw_ended' = SwNoEnded
    /\ UNCHANGED <<sw_cache, sw_pending>>
    /\ SwFrame

\* A fetch event, up to the answer of caches.match(request).  Without
\* respondWith the browser performs the request itself (answer "default").
Sw_FetchAnyMethod(request) ==
    /\ sw_state = "activated"
    /\ IF sw_cache[request.url] # "absent"
       THEN /\ sw_ended' = [request |-> request, answer |-> "cache"]
            /\ UNCHANGED sw_pending
       ELSE /\ request \notin sw_pending
            /\ Cardinality(sw_pending) < MaxCalls
            /\ sw_pending' = sw_pending \cup {request}
            /\ sw_ended' = SwNoEnded
    /\ UNCHANGED <<sw_state, sw_cache>>
    /\ SwFrame
Sw_Fetch(request) ==
    /\ sw_state = "activated"
    /\ IF request.method # "GET"
       THEN /\ sw_ended' = [request |-> request, answer |-> "default"]
            /\ UNCHANGED sw_pending
       ELSE IF sw_cache[request.url] # "absent"
       THEN /\ sw_ended' = [request |-> request, answer |-> "cache"]
            /\ UNCHANGED sw_pending
       ELSE /\ request \notin sw_pending
            /\ Cardinality(sw_pending) < MaxCalls
            /\ sw_pending' = sw_pending \cup {request}
            /\ sw_ended' = SwNoEnded
    /\ UNCHANGED <<sw_state, sw_cache>>
    /\ SwFrame

\* fetch(request) resolves: the response is put into the cache when the
\* request is of the worker's origin, and answers the request.
Sw_NetworkResponse(request) ==
    /\ request \in sw_pending
    /\ sw_pending' = sw_pending \ {request}
    /\ sw_cache' = IF SwSameOrigin(request.url)
                   THEN [sw_cache EXCEPT ![request.url] = request.method]
                   ELSE sw_cache
    /\ sw_ended' = [request |-> request, answer |-> "network"]
    /\ UNCHANGED sw_state
    /\ SwFrame

\* fetch(request) rejects: the catch answers an HTML request with
\* caches.match(OFFLINE_URL), which is undefined when nothing is stored for
\* it, and any other request with undefined.
Sw_NetworkFails(request) ==
    /\ request \in sw_pending
    /\ sw_pending' = sw_pending \ {request}
    /\ sw_ended' = [request |-> request,
                    answer |-> IF request.html /\ sw_cache[OFFLINE_URL] # "absent"
                               THEN "offline" ELSE "undefined"]
    /\ UNCHANGED <<sw_state, sw_cache>>
    /\ SwFrame

SwInit ==
    /\ sw_state = "parsed"
    /\ sw_cache = [u \in SwUrls |-> "absent"]
    /\ sw_pending = {}
    /\ sw_ended = SwNoEnded

SwNext ==
    \/ \E ok \in BOOLEAN : Sw_Install(ok)
    \/ Sw_Activate
    \/ \E r \in SwRequests : Sw_Fetch(r)
    \/ \E r \in SwRequests : Sw_NetworkResponse(r)
    \/ \E r \in SwRequests : Sw_NetworkFails(r)

(***************************************************************************)
(* dash.js MedAIApp v2.5.0: the camera handle.  initCamera() and cleanup() *)
(* are methods of window.App; streams are numbered in the order in which   *)
(* getUserMedia hands them out, 0 stands for null.                         *)
(***************************************************************************)
CamFrame ==
    UNCHANGED <<v4vars, dashvars, corevars, core2vars, authvars, authappvars, engvars,
                confvars, swvars, torchvars>>

\* initCamera() up to `await navigator.mediaDevices.getUserMedia(...)`.
Cam_InitCamera ==
    /\ IF cam_cameraStream # 0
       THEN UNCHANGED cam_pending
       ELSE /\ cam_pending < MaxCalls
            /\ cam_pending' = cam_pending + 1
    /\ UNCHANGED <<cam_cameraStream, cam_unstopped, cam_acquired>>
    /\ CamFrame

\* getUserMedia resolves with a new stream, which initCamera assigns.
Cam_Granted ==
    /\ cam_pending > 0
    /\ cam_acquired < MaxStreams
    /\ cam_pending' = cam_pending - 1
    /\ cam_acquired' = cam_acquired + 1
    /\ cam_cameraStream' = cam_acquired + 1
    /\ cam_unstopped' = cam_unstopped \cup {cam_acquired + 1}
    /\ CamFrame

\* getUserMedia rejects: the catch of initCamera notifies.
Cam_Denied ==
    /\ cam_pending > 0
    /\ cam_pending' = cam_pending - 1
    /\ UNCHANGED <<cam_cameraStream, cam_unstopped, cam_acquired>>
    /\ CamFrame

\* cleanup(): the tracks of the held stream are stopped and the field nulled.
Cam_Cleanup ==
    /\ cam_unstopped' = cam_unstopped \ {cam_cameraStream}
    /\ cam_cameraStream' = 0
    /\ UNCHANGED <<cam_pending, cam_acquired>>
    /\ CamFrame

\* After `window.App.init()`: the initCamera() of init waits for getUserMedia.
CamInit ==
    /\ cam_cameraStream = 0
    /\ cam_unstopped = {}
    /\ cam_pending = 1
    /\ cam_acquired = 0

CamNext ==
    \/ Cam_InitCamera
    \/ Cam_Granted
    \/ Cam_Denied
    \/ Cam_Cleanup

(***************************************************************************)
(* part_001, first program: MedAI Enterprise Engine v2.6.0, the torch.     *)
(* applyConstraints calls on the video track settle in the order in which  *)
(* they were made.                                                         *)
(***************************************************************************)
TorchFrame ==
    UNCHANGED <<v4vars, dashvars, corevars, core2vars, authvars, authappvars, engvars,
                confvars, swvars, camvars>>

\* getUserMedia of initCamera resolves: cameraStream has a video track, its
\* torch off.
Torch_CameraGranted ==
    /\ ~torch_track
    /\ torch_track' = TRUE
    /\ torch_note' = ""
    /\ UNCHANGED <<torch_enabled, torch_hardware, torch_pending, torch_calls>>
    /\ TorchFrame

\* click on #toggle-torch: toggleTorch() up to `await track.applyConstraints(...)`.
Torch_Toggle ==
    /\ torch_calls < MaxToggles
    /\ torch_calls' = torch_calls + 1
    /\ IF ~torch_track
       THEN UNCHANGED <<torch_enabled, torch_pending>>
       ELSE /\ Len(torch_pending) < MaxCalls
            /\ torch_enabled' = ~torch_enabled
            /\ torch_pending' = Append(torch_pending, ~torch_enabled)
    /\ torch_note' = ""
    /\ UNCHANGED <<torch_track, torch_hardware>>
    /\ TorchFrame

\* applyConstraints resolves: the track has the requested torch setting.
Torch_ApplyResolves ==
    /\ torch_pending # <<>>
    /\ torch_hardware' = Head(torch_pending)
    /\ torch_pending' = Tail(torch_pending)
    /\ torch_note' = IF torch_enabled THEN "Flash ON" ELSE "Flash OFF"
    /\ UNCHANGED <<torch_track, torch_enabled, torch_calls>>
    /\ TorchFrame

\* applyConstraints rejects: the catch of toggleTorch notifies.
Torch_ApplyRejects ==
    /\ torch_pending # <<>>
    /\ torch_pending' = Tail(torch_pending)
    /\ torch_note' = "Flash not supported"
    /\ UNCHANGED <<torch_track, torch_enabled, torch_hardware, torch_calls>>
    /\ TorchFrame

TorchInit ==
    /\ torch_track = FALSE
    /\ torch_enabled = FALSE
    /\ torch_hardware = FALSE
    /\ torch_pending = <<>>
    /\ torch_note = ""
    /\ torch_calls = 0

TorchNext ==
    \/ Torch_CameraGranted
    \/ Torch_Toggle
    \/ Torch_ApplyResolves
    \/ Torch_ApplyRejects

\* One page is explored at a time: the pages of the other revisions stay as
\* they are after loading, online, with a session and without a camera.
V4Quiet ==
    V4Init /\ v4_isOnline /\ v4_medai_token = "tokA" /\ v4_medai_user = "userA"
DashQuiet ==
    DashInit /\ dash_isOnline /\ dash_cameraStream = "null"
CoreQuiet ==
    CoreInit /\ core_medai_token = "tokA"
Core2Quiet ==
    Core2Init /\ core2_session = "valid"
AuthQuiet ==
    AuthInit /\ auth_localStorage = EmptyStorage

Init ==
    /\ V4Init /\ DashInit /\ CoreInit /\ Core2Init /\ AuthInit /\ AuthAppInit
    /\ EngInit /\ ConfInit /\ SwInit /\ CamInit
    /\ TorchInit
InitV4 == Init /\ DashQuiet /\ CoreQuiet /\ Core2Quiet /\ AuthQuiet
InitDash == Init /\ V4Quiet /\ CoreQuiet /\ Core2Quiet /\ AuthQuiet
InitCore == Init /\ V4Quiet /\ DashQuiet /\ Core2Quiet /\ AuthQuiet
InitCore2 == Init /\ V4Quiet /\ DashQuiet /\ CoreQuiet /\ AuthQuiet
InitAuth == Init /\ V4Quiet /\ DashQuiet /\ CoreQuiet /\ Core2Quiet
InitEnvelope == Init /\ CoreQuiet /\ Core2Quiet /\ AuthQuiet
InitSession == Init /\ V4Quiet /\ dash_isOnline /\ CoreQuiet /\ Core2Quiet
InitAuthApp ==
    /\ Init /\ v4_location = V4_REDIRECT_LOGIN /\ v4_isOnline
    /\ DashQuiet /\ CoreQuiet /\ Core2Quiet /\ AuthQuiet

SpecV4 == InitV4 /\ [][V4Next]_vars

SpecV4Call == InitV4 /\ [][V4CallNext]_vars

SpecDash == InitDash /\ [][DashNext]_vars

SpecCore == InitCore /\ [][CoreNext]_vars

SpecCore2 == InitCore2 /\ [][Core2Next]_vars

SpecAuth == InitAuth /\ [][AuthNext]_vars

SpecAuthApp == InitAuthApp /\ [][AuthAppNext]_vars

InitQuiet == Init /\ V4Quiet /\ DashQuiet /\ CoreQuiet /\ Core2Quiet /\ AuthQuiet
SpecEng == InitQuiet /\ [][EngNext]_vars

\* What a capture in progress waits for settles: toBlob calls back, the fetch
\* settles or its timer fires, the sleep ends, the body is read.
EngCallProgress ==
    \/ Eng_BlobReady
    \/ \E s \in EngStatuses : Eng_FetchResponse(s)
    \/ Eng_FetchNetworkError
    \/ Eng_FetchTimeout
    \/ Eng_SleepDone
    \/ \E o \in {"ok", "SyntaxError", "TypeError", "AbortError"},
          c \in EngConfidences : Eng_JsonDone(o, c)

SpecEngFair == InitQuiet /\ [][EngNext]_vars /\ WF_vars(EngCallProgress)

\* The two retrying senders with a backoff, fetchWithRetry of dash.js and
\* HttpClient.post of the Enterprise Engine, each on its own page with the
\* other page as loaded.
InitBackoff == Init /\ V4Quiet /\ CoreQuiet /\ Core2Quiet /\ AuthQuiet
BackoffNext ==
    \/ DashQuiet /\ EngNext
    \/ EngInit /\ DashNext

SpecBackoff == InitBackoff /\ [][BackoffNext]_vars

SpecConfidence == InitQuiet /\ [][ConfNext]_vars

SpecSw == InitQuiet /\ [][SwNext]_vars

SpecCam == InitQuiet /\ [][CamNext]_vars

SpecTorch == InitQuiet /\ [][TorchNext]_vars

\* The request of validateToken() settles: the server answers, the body is
\* read, or the transport fails.
AuthValidateSettles(t) ==
    \/ \E s \in AuthStatuses : Auth_ValidateResponse(t, s)
    \/ Auth_ValidateNetworkError(t)
    \/ \E b \in BOOLEAN, tok \in AuthTokens : Auth_ValidateJsonDone(t, b, tok)

SpecAuthFair ==
    InitAuth /\ [][AuthNext]_vars /\ \A t \in AuthSlots : WF_vars(AuthValidateSettles(t))

\* The dashboard page of dash.js: the session store together with the
\* capture and upload handlers that read its token, all answered with 200.
\* The store and the handlers are run one after the other: a request of one
\* is started only when no request of the other is in progress.
AuthCallsIdle == \A t \in AuthSlots : auth_calls[t].pc = "idle"
DashCallsIdle == \A t \in DashSlots : dash_calls[t].pc = "idle"
SessionNext ==
    \/ DashCallsIdle /\ \E b \in BOOLEAN : Auth_SubmitLogin(b)
    \/ \E t \in AuthSlots : Auth_FetchResponse(t, 200)
    \/ \E t \in AuthSlots, tok \in AuthTokens : Auth_JsonDone(t, TRUE, tok)
    \/ \E t \in AuthSlots, tok \in AuthTokens : Auth_ValidateJsonDone(t, TRUE, tok)
    \/ \E t \in AuthSlots : Auth_ValidateResponse(t, 200)
    \/ DashCallsIdle /\ Auth_Logout
    \/ Dash_CameraGranted
    \/ Dash_VideoReady
    \/ AuthCallsIdle /\ Dash_HandleCapture
    \/ \E t \in DashSlots : Dash_FrameReady(t, TRUE)
    \/ AuthCallsIdle /\ Dash_HandleLocalFileUpload
    \/ Dash_ProcessLocalFile("ok")
    \/ \E t \in DashSlots : Dash_FetchResponse(t, 200)
    \/ \E t \in DashSlots : Dash_JsonDone(t, ValidBody)

SpecSession == InitSession /\ [][SessionNext]_vars

\* The two looping envelopes, fetchSecure and fetchWithRetry, each on its own
\* page with the other page as loaded.
EnvelopeNext ==
    \/ DashQuiet /\ V4CallNext
    \/ V4Quiet /\ DashNext

SpecEnvelope == InitEnvelope /\ [][EnvelopeNext]_vars

\* Scheduling of the pending work of the two request envelopes: a frame being
\* captured arrives, an attempt whose timer is pending settles or has its
\* timer fire, a queued rejection is handled, a sleep ends, a body being read
\* arrives.
V4CallProgress(t) ==
    \/ \E b \in BOOLEAN : V4_FrameReady(t, b)
    \/ \E s \in SomeStatuses : V4_FetchResponse(t, s)
    \/ V4_FetchNetworkError(t)
    \/ V4_FetchTimeout(t)
    \/ V4_SleepDone(t)
    \/ \E b \in SomeBodies : V4_JsonDone(t, b)

\* The analysis calls of auth.js with a representative of each class of response.
V4SomeCallNext ==
    \/ \E f \in BOOLEAN : V4_SafeCapture(f)
    \/ \E s \in FileSizes : V4_FileChange(s)
    \/ \E t \in V4Slots : V4CallProgress(t)

EnvelopeFairNext ==
    \/ DashQuiet /\ V4SomeCallNext
    \/ V4Quiet /\ DashNext

DashAttemptSettles(t) ==
    /\ dash_calls[t].timer
    /\ \/ \E s \in SomeStatuses : Dash_FetchResponse(t, s)
       \/ Dash_FetchNetworkError(t)
       \/ Dash_TimeoutFires(t)

DashCallProgress(t) ==
    \/ \E b \in BOOLEAN : Dash_FrameReady(t, b)
    \/ DashAttemptSettles(t)
    \/ Dash_FetchAborted(t)
    \/ Dash_SleepDone(t)
    \/ \E b \in SomeBodies \cup {PlainBody("null")} : Dash_JsonDone(t, b)

EnvelopeFairness ==
    /\ \A t \in V4Slots : SF_vars(DashQuiet /\ V4CallProgress(t))
    /\ \A t \in DashSlots : SF_vars(V4Quiet /\ DashCallProgress(t))

SpecEnvelopeFair == InitEnvelope /\ [][EnvelopeFairNext]_vars /\ EnvelopeFairness

(***************************************************************************)
(* Properties.                                                             *)
(***************************************************************************)
IsAuthRejection(o) == o.kind = "status" /\ o.status \in {401, 403}
IsNonRetryableStatus(o) ==
    /\ o.kind = "status"
    /\ ~Ok(o.status)
    /\ o.status \notin {401, 403}
    /\ o.status \notin V4_RETRYABLE_STATUS
HasOutcome(outcomes, P(_)) == \E i \in 1..Len(outcomes) : P(outcomes[i])

\* C1: in fetchSecure a 401 or 403 response is terminal at every attempt
\* index.  No call that goes on (to a sleep, a new request or the body) has a
\* 401/403 behind it; the call ends in the step the response arrives, having
\* sent no request after it, and in the state right after that step medai_token
\* and medai_user are absent from localStorage and sendForAnalysis got no
\* response (no body decoded, nothing presented).
C1_AuthRejectionIsTerminal ==
    /\ \A t \in V4Slots : ~HasOutcome(v4_calls[t].outcomes, IsAuthRejection)
    /\ HasOutcome(v4_ended.outcomes, IsAuthRejection) =>
          /\ IsAuthRejection(v4_ended.outcomes[Len(v4_ended.outcomes)])
          /\ v4_ended.result = "authRejected"
          /\ v4_ended.sent = Len(v4_ended.outcomes)
          /\ v4_ended.sent = v4_ended.attempt + 1
          /\ v4_medai_token = NoToken
          /\ v4_medai_user = NoUser
          /\ v4_ended.body = NoBody
          /\ v4_ended.presented = NoBody

C1_Witness ==
    /\ v4_ended.result = "authRejected"
    /\ v4_ended.attempt = V4_MAX_RETRIES
    /\ v4_ended.outcomes[3] = StatusOutcome(403)

IsFailure(o) == o.kind # "status" \/ (~Ok(o.status) /\ ~IsAuthRejection(o))

\* C2: one call of fetchSecure or of fetchWithRetry sends at most
\* MAX_RETRIES + 1 requests, one per attempt index; at the last attempt index it
\* never sleeps, and a failure at that index ends the call in the same step with
\* the error of that attempt; a call that has returned a response sends nothing
\* more: a request is only ever sent by a new call or after a backoff sleep.
C2_V4Bounded ==
    /\ \A t \in V4Slots :
          /\ v4_calls[t].sent <= V4_MAX_RETRIES + 1
          /\ v4_calls[t].pc \in {"fetch", "sleep", "json"} =>
                v4_calls[t].sent = v4_calls[t].attempt + 1
          /\ v4_calls[t].attempt >= V4_MAX_RETRIES => v4_calls[t].pc # "sleep"
    /\ v4_ended.sent <= V4_MAX_RETRIES + 1
    /\ Len(v4_ended.delays) <= V4_MAX_RETRIES
    /\ (v4_ended.sent = V4_MAX_RETRIES + 1 /\ v4_ended.body = NoBody
          /\ IsFailure(v4_ended.outcomes[Len(v4_ended.outcomes)])) =>
          LET last == v4_ended.outcomes[Len(v4_ended.outcomes)] IN
          /\ v4_ended.result = "failed"
          /\ v4_ended.attempt = V4_MAX_RETRIES
          /\ v4_ended.error = IF last.kind = "status" THEN ServerError(last.status) ELSE last

C2_DashBounded ==
    /\ \A t \in DashSlots :
          /\ dash_calls[t].sent <= DASH_MAX_RETRIES + 1
          /\ dash_calls[t].pc \in {"fetch", "rejected", "sleep", "json"} =>
                dash_calls[t].sent = dash_calls[t].i + 1
          /\ dash_calls[t].i >= DASH_MAX_RETRIES => dash_calls[t].pc # "sleep"
    /\ dash_ended.sent <= DASH_MAX_RETRIES + 1
    /\ Len(dash_ended.delays) <= DASH_MAX_RETRIES
    /\ (dash_ended.sent = DASH_MAX_RETRIES + 1 /\ dash_ended.last.kind \in {"TypeError", "AbortError"}) =>
          /\ dash_ended.result = "failed"
          /\ dash_ended.i = DASH_MAX_RETRIES
          /\ dash_ended.error = IF dash_ended.last = AbortErrorOutcome
                                THEN RequestTimeoutError ELSE dash_ended.last

C2_SendsOnlyWhileLooping ==
    /\ \A t \in V4Slots :
          v4_calls'[t].sent # v4_calls[t].sent =>
             \/ v4_calls'[t].pc = "idle"
             \/ /\ v4_calls[t].pc \in {"idle", "captureFrame", "sleep"}
                /\ v4_calls'[t].sent = v4_calls[t].sent + 1
    /\ \A t \in DashSlots :
          dash_calls'[t].sent # dash_calls[t].sent =>
             \/ dash_calls'[t].pc = "idle"
             \/ /\ dash_calls[t].pc \in {"idle", "captureFrame", "sleep"}
                /\ dash_calls'[t].sent = dash_calls[t].sent + 1

C2_AtMostRetriesPlusOneRequests ==
    /\ [](C2_V4Bounded /\ C2_DashBounded)
    /\ [][C2_SendsOnlyWhileLooping]_vars

C2_Witness ==
    /\ v4_ended.result = "failed"
    /\ v4_ended.sent = V4_MAX_RETRIES + 1
    /\ v4_ended.outcomes = <<StatusOutcome(404), TypeErrorOutcome, StatusOutcome(503)>>
    /\ v4_ended.error = ServerError(503)

C2_WitnessDash ==
    /\ dash_ended.result = "failed"
    /\ dash_ended.sent = DASH_MAX_RETRIES + 1
    /\ dash_ended.last = TypeErrorOutcome
    /\ dash_ended.error = TypeErrorOutcome
    /\ Len(dash_ended.delays) = DASH_MAX_RETRIES

\* C3: in fetchSecure a non-retryable failure is not retried.  No call goes on
\* after a status that is neither ok, nor 401/403, nor in RETRYABLE_STATUS; a
\* call whose first answer is such a status ends having made exactly one
\* request, failed with the server error.
C3_NonRetryableIsNotRetried ==
    /\ \A t \in V4Slots : ~HasOutcome(v4_calls[t].outcomes, IsNonRetryableStatus)
    /\ (v4_ended.outcomes # <<>> /\ IsNonRetryableStatus(v4_ended.outcomes[1])) =>
          /\ v4_ended.sent = 1
          /\ v4_ended.result = "failed"
          /\ v4_ended.error = ServerError(v4_ended.outcomes[1].status)

V4Active == {t \in V4Slots : v4_calls[t].pc \in {"fetch", "sleep", "json"}}
v4program == <<v4_isProcessing, v4_isOnline, v4_lastRequestTime, v4_now,
               v4_medai_token, v4_medai_user, v4_location, v4_calls>>

\* C7: at most one fetchSecure call is active at any time (and isProcessing is
\* set while one is), and a capture click or file selection that arrives while
\* isProcessing is true sends no request and changes no state of the program.
C7_OneFetchSecureAtATime ==
    /\ [](Cardinality(V4Active) <= 1 /\ (V4Active # {} => v4_isProcessing))
    /\ [][(v4_isProcessing /\ ((\E f \in BOOLEAN : V4_SafeCapture(f))
                               \/ (\E s \in FileSizes : V4_FileChange(s))))
            => UNCHANGED v4program]_vars

C7_Witness ==
    /\ v4_isProcessing
    /\ v4_ended.src = "file"
    /\ v4_ended.result = "busy"
    /\ \E t \in V4Slots : v4_calls[t].pc = "fetch" /\ v4_calls[t].src = "capture"

\* C8: with 503 on the first two attempts and 200 on the third, fetchSecure
\* returns the third response (sendForAnalysis goes on to decode its body) after
\* exactly three requests, and the delays slept before attempts 2 and 3 are
\* 1000 * 2^0 and 1000 * 2^1 ms, non-decreasing.
Server503Twice == <<StatusOutcome(503), StatusOutcome(503), StatusOutcome(200)>>
DelaysAreExponential(delays) ==
    /\ Len(delays) = 2
    /\ \A i \in 1..2 : delays[i] = 1000 * 2^(i - 1)
    /\ delays[1] <= delays[2]

C8_BackoffAfterTwo503 ==
    /\ \A t \in V4Slots :
          v4_calls[t].outcomes = Server503Twice =>
             /\ v4_calls[t].pc = "json"
             /\ v4_calls[t].sent = 3
             /\ DelaysAreExponential(v4_calls[t].delays)
    /\ v4_ended.outcomes = Server503Twice =>
          /\ v4_ended.body # NoBody
          /\ v4_ended.sent = 3
          /\ DelaysAreExponential(v4_ended.delays)

C8_Witness ==
    \E t \in V4Slots : v4_calls[t].outcomes = Server503Twice /\ v4_calls[t].pc = "json"

\* C10: sendForAnalysis passes the decoded body to the result presenter only
\* if the schema check holds, and it holds exactly for an object whose diagnosis
\* is a string, whose findings is an array (possibly empty) and whose confidence
\* is a number, whatever else it carries; any other body ends the action like a
\* transport failure: the failure notification and nothing presented.
SchemaShape(body) ==
    /\ body.kind = "object"
    /\ body.diagnosis = "string"
    /\ body.findings \in {"array_empty", "array"}
    /\ body.confidence = "number"

C10_OnlySchemaValidBodiesArePresented ==
    v4_ended.body # NoBody =>
       /\ (v4_ended.presented # NoBody) <=> SchemaShape(v4_ended.body)
       /\ v4_ended.presented # NoBody => v4_ended.presented = v4_ended.body
       /\ ~SchemaShape(v4_ended.body) =>
             /\ v4_ended.result = "failed"
             /\ v4_ended.notes = <<"Analysis failed.">>

C10_Witness ==
    /\ v4_ended.presented = ValidBody
    /\ v4_ended.presented.extra
    /\ v4_ended.presented.findings = "array_empty"

\* C4: the timer of a request aborts that request only: whenever a timeout
\* callback of fetchWithTimeout runs, this.abortController holds the controller
\* of the request the timer was set for (not another request's, not null).
C4_TimerAbortsItsOwnRequest ==
    dash_fired.owner # 0 => dash_fired.target = dash_fired.owner

\* C5: in MedAICore v1.0.0 a call of uploadToAI aborts the request that is in
\* flight before it sends its own, so at most one request is ever in flight
\* unaborted, and displayDiagnosis is only called for the request made last
\* (the one this.state.controller was made for).
C5_StartAbortsEarlier ==
    \A t \in CoreSlots :
       (core_calls[t].pc # "fetch" /\ core_calls'[t].pc = "fetch") =>
          \A u \in CoreInFlight \ {t} : core_calls'[u].pc = "rejected"

C5_EarlierRequestIsAborted ==
    /\ [](/\ Cardinality(CoreInFlight) <= 1
          /\ CoreInFlight \subseteq {core_controller}
          /\ core_ended.result = "displayed" =>
                /\ core_ended.slot = core_controller
                /\ CoreInFlight = {} /\ ~CoreMicrotask)
    /\ [][C5_StartAbortsEarlier]_vars

C5_Witness ==
    \E t, u \in CoreSlots :
       /\ core_calls[u].pc = "rejected" /\ core_calls[u].src = "capture"
       /\ core_calls[t].pc = "fetch" /\ core_calls[t].src = "file"
       /\ core_controller = t

DashInFlight == {t \in DashSlots : dash_calls[t].pc \in {"fetch", "rejected"}}

\* C6: at most one request to the analysis endpoint is in flight at any time.
C6_OneRequestInFlight == Cardinality(DashInFlight) <= 1

\* C9: handleCapture reports a failure for a 5xx status only after the request
\* was sent MAX_RETRIES + 1 times.
C9_ServerErrorIsRetried ==
    (/\ dash_ended.src = "capture"
     /\ dash_ended.result = "failed"
     /\ dash_ended.last.kind = "status"
     /\ dash_ended.last.status \in 500..599) =>
        dash_ended.sent = DASH_MAX_RETRIES + 1

\* C11: when sendForAnalysis has decoded a schema-valid body of a 200 response,
\* the action ends as a success: the result is presented and the notification
\* "Analysis failed." is not shown.
C11_ValidBodyEndsInSuccess ==
    (v4_ended.body # NoBody /\ SchemaShape(v4_ended.body)) =>
        /\ v4_ended.result = "success"
        /\ \A i \in 1..Len(v4_ended.notes) : v4_ended.notes[i] # "Analysis failed."

\* C12: handleCapture of dash.js passes a decoded body to displayResults only
\* if it has a string diagnosis, a numeric confidence and an array of findings.
C12_CaptureRejectsIncompleteBody ==
    (dash_ended.src = "capture" /\ dash_ended.presented # NoBody) =>
        SchemaShape(dash_ended.presented)

\* C13: a handler that ends, with whatever outcome, leaves the processing flag
\* cleared in the step it ends; whenever the flag is set it is eventually
\* cleared again, and every sendForAnalysis call ends unless the page is left
\* for the login page, given that every attempt settles or has its timer fire.
C13_EndedHandlerClearedFlag ==
    /\ v4_ended.result \in {"success", "failed", "authRejected", "noResponse"} =>
          ~v4_isProcessing
    /\ dash_ended.result \in {"success", "failed"} => ~dash_isProcessing

C14_NoTimerAfterSettle ==
    /\ \A t \in V4Slots : v4_calls[t].timeout => v4_calls[t].pc = "fetch"
    /\ \A t \in DashSlots : dash_calls[t].timer => dash_calls[t].pc \in {"fetch", "rejected"}

C14_Witness ==
    /\ dash_ended.result = "failed"
    /\ dash_ended.last = AbortErrorOutcome
    /\ \A t \in DashSlots : ~dash_calls[t].timer
    /\ \E t \in DashSlots : dash_calls[t].pc = "sleep" /\ dash_calls[t].i = 1

C16_CancelledRequestEndsQuietly ==
    /\ \A t \in DashSlots : dash_calls[t].cancelled => dash_calls[t].pc \notin {"fetch", "json"}
    /\ dash_ended.cancelled =>
          dash_ended.notes # <<"Request timed out. Please try again.">>

\* C17: in MedAICore v2.0.0 a capture that ends in failure has shown exactly
\* one notification for the failure, "Analysis Failed", and the attempts that
\* failed and were retried have added no notification of their own.
Core2FailureNotes(notes) ==
    SelectSeq(notes, LAMBDA n : n \notin {"Capture Started", "Offline Mode"})
C17_FailedCaptureNotifiesOnce ==
    core2_ended.result = "failed" =>
        Core2FailureNotes(core2_ended.notes) = <<"Analysis Failed">>

\* C18: AuthState's writes are last-writer-wins: when the page is loaded again
\* in the tab after save(remember) calls with any mix of remember,
\* loadFromStorage yields the token and the user of the most recent save.
C18_LoadYieldsMostRecentSave ==
    (auth_ended.op = "init" /\ auth_lastSave # NoSave) =>
        /\ auth_token = auth_lastSave.token
        /\ auth_currentUser = auth_lastSave.user

\* C19: every change of AuthState.token by save, clear, validateToken or a
\* loadFromStorage run by the storage event dispatches medai-auth-changed in
\* the same step, with authenticated = TRUE exactly when a token is now held.
C19_TokenChangeDispatchesEvent ==
    (/\ auth_ended.op \in {"save", "clear", "validateToken", "request", "storage"}
     /\ auth_token # auth_ended.before) =>
        /\ auth_ended.events # <<>>
        /\ auth_ended.events[Len(auth_ended.events)] = (auth_token # NoToken)

\* C20: API.request clears the session and redirects to the login page when
\* the response status is 401 or 403, and for no other outcome.
C20_Clears401And403Only ==
    auth_ended.op = "request" =>
        ((auth_ended.cleared /\ auth_ended.redirected) <=> auth_ended.status \in {401, 403})

\* C21: every analysis request that handleCapture or processLocalFile sends
\* carries as its Bearer token the token most recently saved by
\* AuthState.save, whatever `remember` was, and carries no Authorization
\* header when no token is held.
C21_RequestCarriesSavedToken ==
    [][\A t \in DashSlots :
          (dash_calls[t].pc # "fetch" /\ dash_calls'[t].pc = "fetch" /\ dash_calls'[t].sent = 1) =>
              dash_calls'[t].authorization =
                  (IF auth_lastSave = NoSave THEN NoAuthorization ELSE auth_lastSave.token)]_vars

\* C22: after AuthState.clear(), from any state, medai_token and medai_user
\* are absent from both storages, token and currentUser are null,
\* isAuthenticated is false and getToken() returns null; a loadFromStorage
\* that follows leaves the store unauthenticated, and a second clear()
\* changes nothing.
C22_ClearedStore ==
    auth_ended.cleared =>
        /\ auth_localStorage.token = StorageNull /\ auth_localStorage.user = StorageNull
        /\ auth_sessionStorage.token = StorageNull /\ auth_sessionStorage.user = StorageNull
        /\ auth_token = NoToken /\ auth_currentUser = NoUser
        /\ ~auth_isAuthenticated
        /\ AuthGetToken = NoToken
C22_AfterClear ==
    auth_ended.cleared =>
        /\ auth_ended'.op = "init" => (~auth_isAuthenticated' /\ auth_token' = NoToken)
        /\ auth_ended'.op = "clear" =>
              UNCHANGED <<auth_token, auth_currentUser, auth_isAuthenticated,
                          auth_localStorage, auth_sessionStorage>>
C22_ClearLeavesNoSession == []C22_ClearedStore /\ [][C22_AfterClear]_vars
C22_Witness ==
    /\ auth_ended.op = "clear"
    /\ auth_ended.before \in AuthTokens
    /\ auth_sessionStorage.remember = "false"
    /\ auth_token = NoToken

\* C23: the token that loadFromStorage read is checked with GET /auth/me.  A
\* non-ok answer clears the session from memory and from both storages; a
\* transport failure leaves the stored session and isAuthenticated as they
\* are; and the check comes to an end unless the page is loaded again.
C23_NonOkClears ==
    (auth_ended.op = "validateToken" /\ auth_ended.status # 0 /\ ~Ok(auth_ended.status)) =>
        /\ auth_ended.cleared
        /\ auth_token = NoToken /\ auth_currentUser = NoUser /\ ~auth_isAuthenticated
        /\ auth_localStorage.token = StorageNull /\ auth_localStorage.user = StorageNull
        /\ auth_sessionStorage.token = StorageNull /\ auth_sessionStorage.user = StorageNull
C23_TransportFailureKeeps ==
    (auth_ended'.op = "validateToken" /\ auth_ended'.status = 0) =>
        UNCHANGED <<auth_token, auth_currentUser, auth_isAuthenticated,
                    auth_localStorage, auth_sessionStorage>>
C23_StoredTokenIsValidated ==
    /\ []C23_NonOkClears
    /\ [][C23_TransportFailureKeeps]_vars
    /\ \A t \in AuthSlots :
          (auth_calls[t].op = "validateToken") ~>
              (auth_calls[t].op # "validateToken" \/ auth_ended.op = "init")
C23_Witness ==
    /\ auth_ended.op = "validateToken"
    /\ auth_ended.status = 401
    /\ auth_ended.before \in AuthTokens
    /\ auth_token = NoToken

\* C24: postData of auth.js writes medai_token and medai_user only when the
\* response is ok and its body carries a token; a non-ok response, a
\* transport error and a timeout leave localStorage as it was.
C24_WritesOnlyOnSuccess ==
    (authapp_ended'.result # "none") =>
        \/ /\ authapp_ended'.result = "ok"
           /\ Ok(authapp_ended'.status)
           /\ authapp_ended'.token # NoToken
           /\ v4_medai_token' = authapp_ended'.token
        \/ UNCHANGED <<v4_medai_token, v4_medai_user>>
C24_FailureLeavesStorage ==
    (authapp_ended'.result \in {"serverError", "networkError", "timeout", "syntaxError",
                                "typeError", "shortPassword"}
     \/ (authapp_ended'.result # "none" /\ ~Ok(authapp_ended'.status))) =>
        UNCHANGED <<v4_medai_token, v4_medai_user>>
C24_SessionOnlyOnSuccess ==
    [][C24_WritesOnlyOnSuccess /\ C24_FailureLeavesStorage]_vars
C24_Witness ==
    /\ authapp_ended.result = "serverError"
    /\ authapp_ended.status = 401
    /\ v4_medai_token = "tokA"

\* C25: dash.js fetchWithRetry sleeps exactly 1000 * 2^i ms after failed
\* attempt i, HttpClient.post of the Enterprise Engine sleeps a delay of
\* [1000 * 2^attempt, 1000 * 2^attempt + 300) after failed attempt number
\* attempt, and so the delays of one logical request are strictly increasing.
StrictlyIncreasing(delays) ==
    \A j, k \in 1..Len(delays) : j < k => delays[j] < delays[k]
C25_DashDelays(delays) ==
    /\ \A k \in 1..Len(delays) : delays[k] = 1000 * 2^(k - 1)
    /\ StrictlyIncreasing(delays)
C25_EngDelays(delays) ==
    /\ \A k \in 1..Len(delays) :
          /\ delays[k] >= 1000 * 2^(k - 1)
          /\ delays[k] < 1000 * 2^(k - 1) + 300
    /\ StrictlyIncreasing(delays)
C25_BackoffDelaysIncrease ==
    /\ \A t \in DashSlots : C25_DashDelays(dash_calls[t].delays)
    /\ C25_DashDelays(dash_ended.delays)
    /\ C25_EngDelays(eng_call.delays)
    /\ C25_EngDelays(eng_ended.delays)
    /\ eng_call.pc = "sleep" => Len(eng_call.delays) = eng_call.attempt + 1
C25_Witness ==
    /\ eng_ended.result = "failed"
    /\ eng_ended.attempts = ENG_RETRY_ATTEMPTS + 1
    /\ eng_ended.delays = <<1150, 2299, 4000>>

\* C26: for every numeric confidence c of the response, updateConfidence of
\* dash.js and displayResults of the Enterprise Engine show min(100, max(0, c)):
\* 0 for c below 0, 100 for c above 100, and c itself inside [0, 100].
C26_Expected(c) == IF c < 0 THEN 0 ELSE IF c > 100 THEN 100 ELSE c
C26_ConfidenceIsClamped ==
    (conf_shown.by # "none" /\ conf_shown.confidence.type = "number")
        => conf_shown.text = ToString(C26_Expected(conf_shown.confidence.num)) \o "%"
C26_Witness ==
    /\ conf_shown.by = "dash"
    /\ conf_shown.confidence = Num(0 - 7)
    /\ conf_shown.text = "0%"

\* C27: the fetch handler of the service worker neither answers a request
\* whose method is not GET from the cache nor writes to the cache for it, so
\* medai-cache-v1 never holds the response of a POST.
C27_NoPostEntry == \A u \in SwUrls : sw_cache[u] \in {"absent", "install", "GET"}
C27_NonGetPassesBy ==
    \A r \in SwRequests :
        (r.method # "GET" /\ (sw_ended'.request = r \/ r \in sw_pending \cup sw_pending'))
            => /\ sw_cache' = sw_cache
               /\ sw_pending' = sw_pending
               /\ sw_ended'.answer = "default"
C27_PostIsNeverCached == []C27_NoPostEntry /\ [][C27_NonGetPassesBy]_vars
C27_Witness ==
    /\ sw_ended.request = [method |-> "POST", url |-> "report.html", html |-> FALSE]
    /\ sw_cache["report.html"] = "GET"

\* C28: once the service worker is installed, an HTML navigation that is not
\* in the cache and whose network fetch fails is answered with offline.html,
\* whatever was requested before.
C28_OfflinePageOnFailure ==
    [][\A r \in SwRequests :
          (r \in sw_pending /\ r \notin sw_pending' /\ r.html
           /\ sw_ended'.request = r /\ sw_ended'.answer # "network")
              => sw_ended'.answer = "offline"]_vars

\* C29: in MedAIApp v4.0 no analysis request is sent for a chosen file larger
\* than Config.MAX_FILE_SIZE: the change handler rejects it with an error
\* notification and no call reaches fetchSecure.
C29_OversizeFileIsRejected ==
    [][\A size \in FileSizes :
          (size > V4_MAX_FILE_SIZE /\ V4_FileChange(size))
              => /\ \A t \in V4Slots : v4_calls'[t].pc = "fetch" => v4_calls[t].pc = "fetch"
                 /\ v4_ended'.src = "file"
                 /\ v4_ended'.notes # <<>>]_vars

\* C30: in dash.js, when handleCapture runs while no camera frame is available
\* (no stream, or the video not ready or without dimensions) or the page is
\* offline, it sends no request, leaves isProcessing false, starts no status
\* interval and shows exactly one notification.
C30_NoFrameOrOffline ==
    ~dash_isOnline \/ dash_cameraStream = "null" \/ ~dash_videoReady
C30_CaptureIsRefused ==
    [][(Dash_HandleCapture /\ ~dash_isProcessing /\ C30_NoFrameOrOffline)
          => /\ dash_calls' = dash_calls
             /\ ~dash_isProcessing'
             /\ dash_ended'.sent = 0
             /\ Len(dash_ended'.notes) = 1
             /\ dash_ended'.result \in {"offline", "noCamera"}]_vars
C30_Witness ==
    /\ dash_ended.src = "capture"
    /\ dash_ended.result = "noCamera"
    /\ dash_cameraStream # "null" /\ ~dash_videoReady /\ dash_isOnline
    /\ ~dash_isProcessing
    /\ \A t \in DashSlots : dash_calls[t].pc = "idle"

\* C31: in dash.js the camera handle is a singleton that is explicitly
\* released: after any sequence of initCamera and cleanup calls at most one
\* acquired stream has tracks that are not stopped, and after cleanup() every
\* acquired stream is stopped and cameraStream is null.
C31_AtMostOneUnstopped == Cardinality(cam_unstopped) <= 1
C31_CleanupReleases == Cam_Cleanup => (cam_cameraStream' = 0 /\ cam_unstopped' = {})
C31_CameraIsSingleton == []C31_AtMostOneUnstopped /\ [][C31_CleanupReleases]_vars

\* C32: in MedAIApp v4.0 any two camera captures accepted by rateLimitCheck
\* are at least COOLDOWN_MS apart, and an attempt made before the cooldown has
\* elapsed is rejected with a warning notification, sends no request and
\* leaves lastRequestTime unchanged.  The statement as claimed covers every
\* attempt; the one that holds covers the attempts that reach rateLimitCheck,
\* those made online while no analysis is in progress.
C32_SafeCaptureStep == \E f \in BOOLEAN : V4_SafeCapture(f)
C32_Accepted ==
    /\ C32_SafeCaptureStep
    /\ v4_calls' # v4_calls \/ v4_ended'.result = "captureFailed"
C32_Spaced ==
    C32_Accepted => /\ v4_now - v4_lastRequestTime >= V4_COOLDOWN_MS
                    /\ v4_lastRequestTime' = v4_now
C32_Warned ==
    /\ v4_ended'.result = "rateLimited"
    /\ v4_ended'.notes = <<"Please wait before next request.">>
    /\ v4_calls' = v4_calls
    /\ v4_lastRequestTime' = v4_lastRequestTime
C32_TooEarly == C32_SafeCaptureStep /\ v4_now - v4_lastRequestTime < V4_COOLDOWN_MS
C32_EveryEarlyAttemptIsWarned ==
    [][C32_Spaced /\ (C32_TooEarly => C32_Warned)]_vars
C32_CooldownIsEnforced ==
    [][C32_Spaced
       /\ ((C32_TooEarly /\ v4_isOnline /\ ~v4_isProcessing) => C32_Warned)]_vars
C32_Witness ==
    /\ v4_ended.result = "rateLimited"
    /\ v4_lastRequestTime > 0
    /\ v4_now - v4_lastRequestTime < V4_COOLDOWN_MS
    /\ v4_isOnline /\ ~v4_isProcessing

\* C33: in MedAIApp v2.6.0 state.torchEnabled never desyncs from the
\* hardware: once every toggleTorch call has settled, also one whose
\* applyConstraints failed, state.torchEnabled is the torch setting last
\* applied successfully to the video track.
C33_TorchStateMatchesHardware ==
    torch_pending = <<>> => torch_enabled = torch_hardware

\* C34: HttpClient.post retries only after a status >= 500, an AbortError or
\* a TypeError, and only while attempt < RETRY_ATTEMPTS; a 4xx status (401
\* and 403 included) or a body that does not parse is thrown to the caller
\* after that request, without a retry.
C34_Thrown ==
    /\ eng_call'.pc = "idle"
    /\ eng_ended'.result = "failed"
    /\ eng_ended'.attempts = eng_call.sent
    /\ eng_ended'.delays = eng_call.delays
C34_Retryable ==
    \/ \E s \in EngStatuses : s >= 500 /\ Eng_FetchResponse(s)
    \/ Eng_FetchNetworkError
    \/ Eng_FetchTimeout
    \/ \E o \in {"TypeError", "AbortError"}, c \in EngConfidences : Eng_JsonDone(o, c)
C34_NotRetryable ==
    \/ \E s \in EngStatuses : s >= 400 /\ s < 500 /\ Eng_FetchResponse(s)
    \/ \E c \in EngConfidences : Eng_JsonDone("SyntaxError", c)
C34_RetriesOnlyTransientFailures ==
    [][/\ (eng_call'.pc = "sleep" /\ eng_call.pc # "sleep")
             => (C34_Retryable /\ eng_call.attempt < ENG_RETRY_ATTEMPTS)
       /\ C34_NotRetryable => C34_Thrown
       /\ (C34_Retryable /\ eng_call.attempt >= ENG_RETRY_ATTEMPTS) => C34_Thrown]_vars
C34_Witness ==
    /\ eng_ended.result = "failed"
    /\ eng_ended.note = "Server Error"
    /\ eng_ended.attempts = 2
    /\ Len(eng_ended.delays) = 1

\* C35: one top-level call of HttpClient.post terminates having issued at
\* most RETRY_ATTEMPTS + 1 = 4 requests, whatever mix of 5xx responses,
\* timeouts and network errors it meets: one request per attempt index.
C35_OneRequestPerAttempt ==
    /\ eng_call.sent <= ENG_RETRY_ATTEMPTS + 1
    /\ eng_ended.attempts <= ENG_RETRY_ATTEMPTS + 1
    /\ eng_call.pc \in {"fetch", "sleep", "json"} => eng_call.sent = eng_call.attempt + 1
C35_PostTerminates ==
    /\ []C35_OneRequestPerAttempt
    /\ (eng_call.pc # "idle") ~> (eng_call.pc = "idle")
C35_Witness ==
    /\ eng_ended.result = "failed"
    /\ eng_ended.attempts = ENG_RETRY_ATTEMPTS + 1
    /\ eng_ended.note = "Failed to fetch"
    /\ Len(eng_ended.delays) = ENG_RETRY_ATTEMPTS


(***************************************************************************)
(* C36: fetchSecure of MedAIApp v4.0 never issues a request without a      *)
(* stored token.  A call that finds no medai_token performs logout and     *)
(* returns with zero requests sent; every attempt of any other call        *)
(* carries Authorization: Bearer with the token read when the call         *)
(* started, whatever localStorage holds by the time of the attempt.        *)
(***************************************************************************)
C36_HeadersOf(c) ==
    /\ Len(c.headers) = c.sent
    /\ \A i \in 1..Len(c.headers) : c.headers[i] = "Bearer " \o c.token
    /\ c.sent > 0 => c.token \in Tokens

C36_EveryAttemptCarriesTheToken ==
    /\ \A t \in V4Slots : C36_HeadersOf(v4_calls[t])
    /\ C36_HeadersOf(v4_ended)
    /\ v4_ended.result = "noToken" =>
          /\ v4_ended.sent = 0
          /\ v4_medai_token = NoToken
          /\ v4_medai_user = NoUser
          /\ v4_location = V4_REDIRECT_LOGIN

\* The first request of a call is sent with the token stored at that moment,
\* a call made without a stored token ends in logout, and the call keeps its
\* token until it ends.
C36_TokenIsReadAtTheStart ==
    \A t \in V4Slots :
       /\ (v4_calls[t].sent = 0 /\ v4_calls'[t].sent > 0) =>
             /\ v4_medai_token \in Tokens
             /\ v4_calls'[t].token = v4_medai_token
       /\ (v4_calls[t].sent > 0 /\ v4_calls'[t].sent > 0) =>
             v4_calls'[t].token = v4_calls[t].token
       /\ v4_ended'.result = "noToken" => v4_medai_token = NoToken

C36_NoRequestWithoutToken ==
    []C36_EveryAttemptCarriesTheToken /\ [][C36_TokenIsReadAtTheStart]_vars

\* A retry was sent after another page removed the session.
C36_Witness ==
    \E t \in V4Slots :
       /\ v4_calls[t].sent >= 2
       /\ v4_medai_token = NoToken
       /\ v4_calls[t].headers[v4_calls[t].sent] = "Bearer tokA"

\* A call found no stored token.
C36_WitnessNoToken == v4_ended.result = "noToken"


(***************************************************************************)
(* C37: in every reachable state of the AuthState of dash.js,              *)
(* isAuthenticated is true if and only if token and currentUser are both   *)
(* non-null, after any sequence of loadFromStorage, login followed by      *)
(* save, validateToken, clear and storage events of another tab.           *)
(***************************************************************************)
C37_IsAuthenticatedIffSession ==
    auth_isAuthenticated <=> (auth_token # NoToken /\ auth_currentUser # NoUser)

====
